---- MODULE Spec2Model ----
(***************************************************************************)
(* AG-UI bridge: the /agui/run handler (handlers/run.ts), the event        *)
(* builder (events/builder.ts), the SSE sink (events/sse.ts) and the task  *)
(* states (events/types.ts).                                               *)
(*                                                                         *)
(* One record per handler invocation ("run").  The background task of a    *)
(* run is a sequence of awaits; `pc` names the await the task is suspended *)
(* at, and every action resumes the task from that await and executes the  *)
(* synchronous code up to the next await.  `log` is the run's trace of     *)
(* outbound operations (Task Client calls, sleeps, sink operations) and of *)
(* their outcomes, in program order.                                       *)
(***************************************************************************)
EXTENDS Integers, Sequences, FiniteSets, TLC

VARIABLES runs, config

vars == <<runs, config>>

\* Largest MAX_POLL_ATTEMPTS the environment configures in the model.
MaxAttempts == 2

\* config.ts: default poll interval when POLL_INTERVAL_MS is unset.
DefaultPollIntervalMs == 500

\* run.ts: the code passed with 'Task canceled'.
CanceledCode == -32000

RunIds == {1, 2}

----------------------------------------------------------------------------
(* events/types.ts *)

BinduTaskState ==
  {"submitted", "working", "input-required", "auth-required",
   "completed", "canceled", "failed"}

\* TERMINAL_STATES without 'canceled'.
TerminalStatesNoCanceled == {"completed", "failed"}

TERMINAL_STATES == {"completed", "canceled", "failed"}

----------------------------------------------------------------------------
(* JavaScript helpers *)

\* Truthiness of a string: '' is falsy.
Truthy(str) == str # ""

Has(rec, f) == f \in DOMAIN rec

\* Math.ceil(a / b) for integers a and b > 0.
CeilDiv(a, b) == -((-a) \div b)

\* RandomUUID returning the same identifier at every call.
RandomUUIDConstant(r, n) == "uuid-0"

\* crypto.randomUUID(): the n-th identifier drawn by run r; distinct for
\* distinct (r, n) and distinct from every caller-chosen identifier.
RandomUUID(r, n) == "uuid-" \o ToString(r) \o "-" \o ToString(n)

----------------------------------------------------------------------------
(* events/builder.ts: AGUIEventBuilder.  A builder is [threadId, runId].   *)
(* The timestamp field (Date.now()) is not modelled.                       *)

\* Base with one builder shared by all requests (the first request's).
BaseSharedBuilder(b, type) ==
  [type |-> type, thread_id |-> runs[1].events.threadId,
   run_id |-> runs[1].events.runId]

Base(b, type) == [type |-> type, thread_id |-> b.threadId, run_id |-> b.runId]

RunStartedEvent(b) == Base(b, "RUN_STARTED")

RunFinishedEvent(b) == Base(b, "RUN_FINISHED")

\* RunErrorEvent that never carries a code.
RunErrorEventNoCode(b, message, optCode) ==
  Base(b, "RUN_ERROR") @@ [error |-> [message |-> message]]

\* optCode is <<>> (argument omitted) or <<code>>.
RunErrorEvent(b, message, optCode) ==
  Base(b, "RUN_ERROR") @@
  [error |-> IF optCode = <<>> THEN [message |-> message]
             ELSE [message |-> message, code |-> optCode[1]]]

StateDeltaEvent(b, binduState) ==
  Base(b, "STATE_DELTA") @@ [delta |-> [bindu_state |-> binduState]]

TextMessageStartEvent(b, messageId, role) ==
  Base(b, "TEXT_MESSAGE_START") @@ [message_id |-> messageId, role |-> role]

TextMessageContentEvent(b, messageId, content) ==
  Base(b, "TEXT_MESSAGE_CONTENT") @@
  [message_id |-> messageId, content |-> content]

TextMessageEndEvent(b, messageId) ==
  Base(b, "TEXT_MESSAGE_END") @@ [message_id |-> messageId]

----------------------------------------------------------------------------
(* Inputs *)

Msg(role, content) == [role |-> role, content |-> content]

\* Request bodies (parsed JSON).  Optional fields are absent from the record.
Bodies ==
  { [thread_id |-> "t1", messages |-> <<Msg("user", "hi")>>],
    [thread_id |-> "t1", run_id |-> "r1",
     messages |-> <<Msg("system", "s"), Msg("user", "a"),
                    Msg("assistant", "b"), Msg("user", "c")>>],
    [thread_id |-> "t2", run_id |-> "", messages |-> <<Msg("user", "hi")>>],
    [thread_id |-> "t1", messages |-> <<Msg("assistant", "a")>>],
    [thread_id |-> "t2", run_id |-> "r2",
     messages |-> <<Msg("system", "s"), Msg("assistant", "a")>>],
    [messages |-> <<Msg("user", "hi")>>],
    [thread_id |-> "", messages |-> <<Msg("user", "hi")>>],
    [thread_id |-> "t1"],
    [thread_id |-> "t1", messages |-> <<>>],
    [thread_id |-> "t1", messages |-> <<Msg("user", "hi")>>,
     config |-> [timeout_ms |-> 600]],
    [thread_id |-> "t1", messages |-> <<Msg("user", "hi")>>,
     config |-> [timeout_ms |-> 0]],
    [thread_id |-> "t1", messages |-> <<Msg("user", "hi")>>,
     config |-> [timeout_ms |-> -600]],
    [thread_id |-> "t1", messages |-> <<Msg("user", "hi")>>,
     config |-> [polling_interval_ms |-> 250, timeout_ms |-> 200]] }

TextPart(text) == [kind |-> "text", text |-> text]

\* Artifact lists a completed task may carry (absent: no artifacts field).
ArtifactChoices ==
  { <<>>,
    <<[parts |-> <<TextPart("hello")>>]>>,
    <<[parts |-> <<[kind |-> "file"], TextPart("")>>],
      [parts |-> <<TextPart("a"), [kind |-> "data"], TextPart("b")>>]>> }

Task(state) == [status |-> [state |-> state]]

TaskWith(state, artifacts) == [status |-> [state |-> state], artifacts |-> artifacts]

\* A state string of a snapshot outside BinduTaskState: status.state is a
\* string, cast to BinduTaskState without a check.
OtherStates == {"unknown"}

\* Snapshots tasks/get may return.
TaskSnapshots ==
  {Task(st) : st \in BinduTaskState \cup OtherStates} \cup
  {TaskWith("completed", a) : a \in ArtifactChoices}


\* Reasons a write to a broken stream rejects with: an Error, or any value.
SinkErrors == {[isError |-> TRUE, message |-> "stream closed"], [isError |-> FALSE]}

----------------------------------------------------------------------------
(* config.ts: BinduClient.call, and errors.ts: BinduRPCError.  Thrown       *)
(* values are records: isError (instanceof Error), isRPC (instanceof        *)
(* BinduRPCError), name, message and, for a BinduRPCError, code.            *)

\* config.ts: the code of every error that is not a JSON-RPC error response.
RemoteErrorCode == -32000

BinduRPCError(code, message) ==
  [isError |-> TRUE, isRPC |-> TRUE, name |-> "BinduRPCError",
   code |-> code, message |-> message]

\* An Error that is not a BinduRPCError.
JsError(name, message) ==
  [isError |-> TRUE, isRPC |-> FALSE, name |-> name, message |-> message]

\* An HTTP response: its status line and what response.json() does (throws
\* a SyntaxError, is aborted by the timeout, or yields a value: null or an
\* object).
HttpResponse(ok, status, statusText, json) ==
  [kind |-> "response", ok |-> ok, status |-> status,
   statusText |-> statusText, json |-> json]

JsonObject(data) == [kind |-> "object", data |-> data]

\* A JSON-RPC success response carrying task.
Reply(task) == HttpResponse(TRUE, 200, "OK", JsonObject([result |-> task]))

\* The ways a call fails: fetch rejects (the timeout aborts it, or the
\* transport fails), a non-2xx response, a body that is not JSON, a body
\* read aborted by the timeout, the body `null`, a JSON-RPC error response.
FetchFailures ==
  { [kind |-> "fetchRejected",
     error |-> JsError("AbortError", "The operation was aborted")],
    [kind |-> "fetchRejected", error |-> JsError("TypeError", "fetch failed")],
    HttpResponse(FALSE, 500, "Internal Server Error", [kind |-> "unread"]),
    HttpResponse(TRUE, 200, "OK",
                 [kind |-> "throws",
                  error |-> JsError("SyntaxError", "Unexpected token < in JSON")]),
    HttpResponse(TRUE, 200, "OK",
                 [kind |-> "throws",
                  error |-> JsError("AbortError", "The operation was aborted")]),
    HttpResponse(TRUE, 200, "OK", [kind |-> "null"]),
    HttpResponse(TRUE, 200, "OK",
                 JsonObject([error |-> [code |-> -32601,
                                        message |-> "Method not found"]])) }

\* The try block of call: the value returned, or the value thrown.
CallTry(o) ==
  IF o.kind = "fetchRejected" THEN [threw |-> TRUE, error |-> o.error]
  ELSE IF ~o.ok
  THEN [threw |-> TRUE,
        error |-> BinduRPCError(RemoteErrorCode,
                                "HTTP error: " \o ToString(o.status) \o " "
                                \o o.statusText)]
  ELSE IF o.json.kind = "throws" THEN [threw |-> TRUE, error |-> o.json.error]
  ELSE IF o.json.kind = "null"
  THEN [threw |-> TRUE,
        error |-> JsError("TypeError", "Cannot read properties of null")]
  ELSE IF Has(o.json.data, "error")
  THEN [threw |-> TRUE,
        error |-> BinduRPCError(o.json.data.error.code,
                                o.json.data.error.message)]
  ELSE [threw |-> FALSE, result |-> o.json.data.result]

\* CallCatch rethrowing whatever it caught.
CallCatchRethrows(error) == error

\* The catch block of call: the error it throws.
CallCatch(error) ==
  IF error.isError /\ error.isRPC THEN error
  ELSE IF error.isError
  THEN IF error.name = "AbortError"
       THEN BinduRPCError(RemoteErrorCode, "Request timeout")
       ELSE BinduRPCError(RemoteErrorCode, error.message)
  ELSE BinduRPCError(RemoteErrorCode, "Unknown error")

\* call: try, catch, and the finally block's clearTimeout.
Call(o) ==
  LET t == CallTry(o)
      settled == IF t.threw
                 THEN [ok |-> FALSE, error |-> CallCatch(t.error),
                       timerCleared |-> FALSE]
                 ELSE [ok |-> TRUE, result |-> t.result, timerCleared |-> FALSE]
  IN  [settled EXCEPT !.timerCleared = TRUE]

\* Errors BinduClient raises.
RpcErrors == {Call(o).error : o \in FetchFailures}

----------------------------------------------------------------------------
(* State of one handler invocation *)

NoBody == [invalid |-> TRUE]

\* The body `null`: valid JSON that is not an object.
NullBody == [isNull |-> TRUE]

NoTask == [kind |-> "none"]

NoCall == [kind |-> "none"]

NoBuilder == [threadId |-> "", runId |-> ""]

IdleRun(r) ==
  [id |-> r, pc |-> "idle", cont |-> "", body |-> NoBody,
   response |-> [status |-> 0],
   threadId |-> "", taskId |-> "", messageId |-> "",
   pollIntervalMs |-> 0, maxPollAttempts |-> 0,
   events |-> NoBuilder, uuids |-> 0,
   lastState |-> "", pollCount |-> 0,
   currentTask |-> NoTask, ai |-> 0, pi |-> 0, msgId |-> "",
   log |-> <<>>, delivered |-> <<>>,
   sink |-> "none", sinkError |-> [isError |-> FALSE],
   lastCall |-> NoCall, timersCleared |-> 0]

Init ==
  /\ runs = [r \in RunIds |-> IdleRun(r)]
  /\ config \in [pollIntervalMs : {DefaultPollIntervalMs},
                 maxPollAttempts : 0..MaxAttempts]

----------------------------------------------------------------------------
(* events/sse.ts: createSSEStream over a WritableStreamDefaultWriter.      *)
(* sink is "open", "errored" (a write has been or will be rejected: the    *)
(* consumer is gone) or "closed".                                          *)

\* formatSSEEvent: the wire record "event: <type>\ndata: <json>\n\n".
FormatSSEEvent(event) == [event |-> event.type, data |-> event]

\* sse.emit(event), up to the await of writer.write; k names the code that
\* runs when the write resolves.
SseEmit(s, event, k) ==
  [s EXCEPT !.pc = "emit", !.cont = k,
            !.log = Append(@, [op |-> "emit", event |-> event])]

\* sse.close(), up to the await of writer.close.
SseClose(s) ==
  [s EXCEPT !.pc = "close", !.cont = "",
            !.log = Append(@, [op |-> "close"])]

----------------------------------------------------------------------------
(* handlers/run.ts: the background task of handleAGUIRun, one operator per *)
(* stretch of synchronous code.                                            *)

\* Finally leaving the task without closing the stream.
FinallyNoClose(s) == [s EXCEPT !.pc = "done", !.cont = ""]

\* finally { try { await sse.close() } catch {} }
Finally(s) == SseClose(s)

\* Catch reporting 'Unknown error' whatever was thrown.
CatchUnknownError(s, error) ==
  SseEmit(s, RunErrorEvent(s.events, "Unknown error", <<>>), "catch")

\* catch (error) { message = ...; try { await sse.emit(runError(message)) } catch {} }
Catch(s, error) ==
  SseEmit(s, RunErrorEvent(s.events,
                           IF error.isError THEN error.message ELSE "Unknown error",
                           <<>>),
          "catch")

\* AfterLoop without the attempt-count test.
AfterLoopNoCountTest(s) ==
  IF s.lastState \notin TERMINAL_STATES
  THEN SseEmit(s, RunErrorEvent(s.events, "Polling timeout", <<>>), "end")
  ELSE Finally(s)

\* AfterLoop testing pollCount > maxPollAttempts.
AfterLoopStrictCountTest(s) ==
  IF s.pollCount > s.maxPollAttempts /\ s.lastState \notin TERMINAL_STATES
  THEN SseEmit(s, RunErrorEvent(s.events, "Polling timeout", <<>>), "end")
  ELSE Finally(s)

\* After the loop: the timeout check, then the end of the try block.
AfterLoop(s) ==
  IF s.pollCount >= s.maxPollAttempts /\ s.lastState \notin TERMINAL_STATES
  THEN SseEmit(s, RunErrorEvent(s.events, "Polling timeout", <<>>), "end")
  ELSE Finally(s)

\* await sleep(pollIntervalMs)
Sleep(s) ==
  [s EXCEPT !.pc = "sleep",
            !.log = Append(@, [op |-> "sleep", ms |-> s.pollIntervalMs])]

\* LoopHead with <= for <.
LoopHeadOffByOne(s) ==
  IF s.pollCount <= s.maxPollAttempts THEN Sleep(s) ELSE AfterLoop(s)

\* LoopHead testing a poll counter shared by all runs (the first run's).
LoopHeadSharedCounter(s) ==
  IF runs[1].pollCount < s.maxPollAttempts THEN Sleep(s) ELSE AfterLoop(s)

\* LoopHead calling getTask without the sleep.
LoopHeadNoSleep(s) ==
  IF s.pollCount < s.maxPollAttempts
  THEN [s EXCEPT !.pc = "getTask",
                 !.log = Append(@, [op |-> "getTask", taskId |-> s.taskId])]
  ELSE AfterLoop(s)

\* LoopHead leaving the loop as soon as the stream is broken.
LoopHeadDetectsDisconnect(s) ==
  IF s.sink # "errored" /\ s.pollCount < s.maxPollAttempts
  THEN Sleep(s) ELSE AfterLoop(s)

\* while (pollCount < maxPollAttempts) { await sleep(...) ...
LoopHead(s) ==
  IF s.pollCount < s.maxPollAttempts THEN Sleep(s) ELSE AfterLoop(s)

\* binduClient.getTask(taskId), up to the await.
GetTask(s) ==
  [s EXCEPT !.pc = "getTask",
            !.log = Append(@, [op |-> "getTask", taskId |-> s.taskId])]

\* await sse.emit(events.runFinished()); break
EmitRunFinished(s) == SseEmit(s, RunFinishedEvent(s.events), "break")

\* emitArtifactsAsMessages: the two nested loops, resumed at part pi of
\* artifact ai, up to the next emit (or to the emit of RUN_FINISHED that
\* follows the call when the loops are over).
RECURSIVE ArtifactLoop(_, _, _)
ArtifactLoop(s, ai, pi) ==
  LET artifacts == s.currentTask.artifacts IN
  IF ai > Len(artifacts) THEN EmitRunFinished(s)
  ELSE IF pi > Len(artifacts[ai].parts) THEN ArtifactLoop(s, ai + 1, 1)
  ELSE LET part == artifacts[ai].parts[pi] IN
       IF part.kind = "text" /\ Has(part, "text") /\ Truthy(part.text)
       THEN LET msgId == RandomUUID(s.id, s.uuids + 1) IN
            SseEmit([s EXCEPT !.ai = ai, !.pi = pi, !.msgId = msgId,
                              !.uuids = @ + 1],
                    TextMessageStartEvent(s.events, msgId, "assistant"),
                    "msgContent")
       ELSE ArtifactLoop(s, ai, pi + 1)

\* EmitArtifactsAsMessages emitting no message event for the artifacts.
EmitArtifactsSkipped(s) ==
  IF ~Has(s.currentTask, "artifacts") \/ Len(s.currentTask.artifacts) = 0
  THEN EmitRunFinished(s)
  ELSE EmitRunFinished([s EXCEPT !.msgId = RandomUUID(s.id, s.uuids + 1)])

\* emitArtifactsAsMessages(sse, events, currentTask); then RUN_FINISHED.
EmitArtifactsAsMessages(s) ==
  IF ~Has(s.currentTask, "artifacts") \/ Len(s.currentTask.artifacts) = 0
  THEN EmitRunFinished(s)
  ELSE ArtifactLoop(s, 1, 1)

\* TerminalCheck without pollCount++.
TerminalCheckNoCount(s) ==
  LET currentState == s.currentTask.status.state IN
  IF currentState \in TERMINAL_STATES
  THEN IF currentState = "completed" THEN EmitArtifactsAsMessages(s)
       ELSE IF currentState = "failed"
       THEN SseEmit(s, RunErrorEvent(s.events, "Task failed", <<>>), "break")
       ELSE SseEmit(s, RunErrorEvent(s.events, "Task canceled", <<CanceledCode>>),
                    "break")
  ELSE LoopHead(s)

\* TerminalCheck finishing the run when the task waits for input or for
\* authentication.
TerminalCheckWaitingEnds(s) ==
  LET currentState == s.currentTask.status.state IN
  IF currentState \in {"input-required", "auth-required"}
  THEN EmitRunFinished(s)
  ELSE IF currentState \in TERMINAL_STATES
  THEN IF currentState = "completed" THEN EmitArtifactsAsMessages(s)
       ELSE IF currentState = "failed"
       THEN SseEmit(s, RunErrorEvent(s.events, "Task failed", <<>>), "break")
       ELSE SseEmit(s, RunErrorEvent(s.events, "Task canceled", <<CanceledCode>>),
                    "break")
  ELSE LoopHead([s EXCEPT !.pollCount = @ + 1])

\* if (TERMINAL_STATES.includes(currentState)) {...; break} pollCount++
TerminalCheck(s) ==
  LET currentState == s.currentTask.status.state IN
  IF currentState \in TERMINAL_STATES
  THEN IF currentState = "completed" THEN EmitArtifactsAsMessages(s)
       ELSE IF currentState = "failed"
       THEN SseEmit(s, RunErrorEvent(s.events, "Task failed", <<>>), "break")
       ELSE SseEmit(s, RunErrorEvent(s.events, "Task canceled", <<CanceledCode>>),
                    "break")
  ELSE LoopHead([s EXCEPT !.pollCount = @ + 1])

\* OnTask without the comparison with lastState.
OnTaskAlwaysDelta(s, task) ==
  SseEmit([s EXCEPT !.currentTask = task,
                    !.log = Append(@, [op |-> "getTaskResult", ok |-> TRUE,
                                       state |-> task.status.state])],
          StateDeltaEvent(s.events, task.status.state), "delta")

\* OnTask emitting no STATE_DELTA for a terminal state.
OnTaskNoTerminalDelta(s, task) ==
  LET s1 == [s EXCEPT !.currentTask = task,
                      !.log = Append(@, [op |-> "getTaskResult", ok |-> TRUE,
                                         state |-> task.status.state])]
      currentState == task.status.state
  IN  IF currentState # s.lastState /\ currentState \notin TERMINAL_STATES
      THEN SseEmit(s1, StateDeltaEvent(s.events, currentState), "delta")
      ELSE TerminalCheck(s1)

\* getTask resolved with task: the state comparison.
OnTask(s, task) ==
  LET s1 == [s EXCEPT !.currentTask = task,
                      !.log = Append(@, [op |-> "getTaskResult", ok |-> TRUE,
                                         state |-> task.status.state])]
      currentState == task.status.state
  IN  IF currentState # s.lastState
      THEN SseEmit(s1, StateDeltaEvent(s.events, currentState), "delta")
      ELSE TerminalCheck(s1)

\* OnTaskError counting the failed attempt before it breaks.
OnTaskErrorCountsAttempt(s, error) ==
  SseEmit([s EXCEPT !.pollCount = @ + 1,
                    !.log = Append(@, [op |-> "getTaskResult", ok |-> FALSE,
                                       error |-> error])],
          RunErrorEvent(s.events,
                        IF error.isError THEN error.message
                        ELSE "Failed to get task status",
                        <<>>),
          "break")

\* OnTaskError forwarding the code of the remote error.
OnTaskErrorForwardsCode(s, error) ==
  SseEmit([s EXCEPT !.log = Append(@, [op |-> "getTaskResult", ok |-> FALSE,
                                       error |-> error])],
          RunErrorEvent(s.events,
                        IF error.isError THEN error.message
                        ELSE "Failed to get task status",
                        <<error.code>>),
          "break")

\* getTask rejected: the inner catch emits the error and breaks.
OnTaskError(s, error) ==
  SseEmit([s EXCEPT !.log = Append(@, [op |-> "getTaskResult", ok |-> FALSE,
                                       error |-> error])],
          RunErrorEvent(s.events,
                        IF error.isError THEN error.message
                        ELSE "Failed to get task status",
                        <<>>),
          "break")

\* OnSubmitted entering the poll loop without RUN_STARTED.
OnSubmittedNoRunStarted(s) ==
  LoopHead([s EXCEPT !.log = Append(@, [op |-> "sendMessageResult", ok |-> TRUE]),
                     !.lastState = "submitted", !.pollCount = 0])

\* sendMessage resolved: RUN_STARTED.
OnSubmitted(s) ==
  SseEmit([s EXCEPT !.log = Append(@, [op |-> "sendMessageResult", ok |-> TRUE])],
          RunStartedEvent(s.events), "loop")

\* sendMessage rejected: the outer catch.
OnSubmitError(s, error) ==
  Catch([s EXCEPT !.log = Append(@, [op |-> "sendMessageResult", ok |-> FALSE,
                                     error |-> error])],
        error)

\* AfterEmit going from TEXT_MESSAGE_CONTENT to the next part, without
\* TEXT_MESSAGE_END.
AfterEmitNoMessageEnd(s) ==
  CASE s.cont = "return" -> Finally(s)
    [] s.cont = "loop" ->
         LoopHead([s EXCEPT !.lastState = "submitted", !.pollCount = 0])
    [] s.cont = "break" -> AfterLoop(s)
    [] s.cont = "delta" ->
         TerminalCheck([s EXCEPT !.lastState = s.currentTask.status.state])
    [] s.cont = "msgContent" ->
         SseEmit(s, TextMessageContentEvent(s.events, s.msgId,
                      s.currentTask.artifacts[s.ai].parts[s.pi].text),
                 "nextPart")
    [] s.cont = "msgEnd" ->
         SseEmit(s, TextMessageEndEvent(s.events, s.msgId), "nextPart")
    [] s.cont = "nextPart" -> ArtifactLoop(s, s.ai, s.pi + 1)
    [] s.cont = "end" -> Finally(s)
    [] s.cont = "catch" -> Finally(s)

\* The code after an emit whose write resolved.
AfterEmit(s) ==
  CASE s.cont = "return" -> Finally(s)
    [] s.cont = "loop" ->
         LoopHead([s EXCEPT !.lastState = "submitted", !.pollCount = 0])
    [] s.cont = "break" -> AfterLoop(s)
    [] s.cont = "delta" ->
         TerminalCheck([s EXCEPT !.lastState = s.currentTask.status.state])
    [] s.cont = "msgContent" ->
         SseEmit(s, TextMessageContentEvent(s.events, s.msgId,
                      s.currentTask.artifacts[s.ai].parts[s.pi].text),
                 "msgEnd")
    [] s.cont = "msgEnd" ->
         SseEmit(s, TextMessageEndEvent(s.events, s.msgId), "nextPart")
    [] s.cont = "nextPart" -> ArtifactLoop(s, s.ai, s.pi + 1)
    [] s.cont = "end" -> Finally(s)
    [] s.cont = "catch" -> Finally(s)

\* AfterEmitError whose inner catch leaves the task without closing.
AfterEmitErrorNoClose(s, error) ==
  IF s.cont = "catch" THEN [s EXCEPT !.pc = "done"] ELSE Catch(s, error)

\* AfterEmitError carrying on as if the write had resolved.
AfterEmitErrorIgnored(s, error) == AfterEmit(s)

\* The code after an emit whose write rejected: the outer catch, or, for
\* the emit inside the catch block, the empty inner catch.
AfterEmitError(s, error) ==
  IF s.cont = "catch" THEN Finally(s) ELSE Catch(s, error)

\* StartTask sending every message, without the filter on role.
StartTaskNoFilter(s) ==
  [s EXCEPT
     !.pc = "sendMessage",
     !.log = Append(@,
       [op |-> "sendMessage",
        message |->
          [role |-> "user",
           parts |-> [i \in 1..Len(s.body.messages) |->
                        [kind |-> "text", text |-> s.body.messages[i].content]],
           kind |-> "message",
           messageId |-> s.messageId,
           contextId |-> s.threadId,
           taskId |-> s.taskId]])]

\* StartTask sending the first `user` message only.
StartTaskFirstUserOnly(s) ==
  LET userMessages == SelectSeq(s.body.messages, LAMBDA m : m.role = "user") IN
  IF Len(userMessages) = 0
  THEN SseEmit(s, RunErrorEvent(s.events, "No user messages to send", <<>>),
               "return")
  ELSE [s EXCEPT
         !.pc = "sendMessage",
         !.log = Append(@,
           [op |-> "sendMessage",
            message |->
              [role |-> "user",
               parts |-> <<[kind |-> "text", text |-> userMessages[1].content]>>,
               kind |-> "message",
               messageId |-> s.messageId,
               contextId |-> s.threadId,
               taskId |-> s.taskId]])]

\* The background task from its start to its first await.
StartTask(s) ==
  LET userMessages == SelectSeq(s.body.messages, LAMBDA m : m.role = "user") IN
  IF Len(userMessages) = 0
  THEN SseEmit(s, RunErrorEvent(s.events, "No user messages to send", <<>>),
               "return")
  ELSE [s EXCEPT
         !.pc = "sendMessage",
         !.log = Append(@,
           [op |-> "sendMessage",
            message |->
              [role |-> "user",
               parts |-> [i \in 1..Len(userMessages) |->
                            [kind |-> "text", text |-> userMessages[i].content]],
               kind |-> "message",
               messageId |-> s.messageId,
               contextId |-> s.threadId,
               taskId |-> s.taskId]])]

\* ValidationError accepting an empty messages list.
ValidationErrorAllowsEmptyMessages(body) ==
  IF ~Has(body, "thread_id") \/ ~Truthy(body.thread_id)
  THEN "thread_id is required"
  ELSE IF ~Has(body, "messages")
  THEN "messages array is required and cannot be empty"
  ELSE ""

\* ValidationError also rejecting a messages list without a `user` entry.
ValidationErrorRequiresUser(body) ==
  IF ~Has(body, "thread_id") \/ ~Truthy(body.thread_id)
  THEN "thread_id is required"
  ELSE IF ~Has(body, "messages") \/ Len(body.messages) = 0
  THEN "messages array is required and cannot be empty"
  ELSE IF \A i \in 1..Len(body.messages) : body.messages[i].role # "user"
  THEN "a user message is required"
  ELSE ""

\* Validation of the parsed body: the 400 message, or "" when accepted.
ValidationError(body) ==
  IF ~Has(body, "thread_id") \/ ~Truthy(body.thread_id)
  THEN "thread_id is required"
  ELSE IF ~Has(body, "messages") \/ Len(body.messages) = 0
  THEN "messages array is required and cannot be empty"
  ELSE ""

\* body.run_id || crypto.randomUUID()
ResolveTaskId(s, body) ==
  IF Has(body, "run_id") /\ Truthy(body.run_id)
  THEN [s EXCEPT !.taskId = body.run_id]
  ELSE [s EXCEPT !.taskId = RandomUUID(s.id, s.uuids + 1), !.uuids = @ + 1]

\* ResolvePollInterval ignoring the request's polling_interval_ms.
ResolvePollIntervalDefaultOnly(body, cfg) == cfg.pollIntervalMs

\* body.config?.polling_interval_ms ?? config.pollIntervalMs
ResolvePollInterval(body, cfg) ==
  IF Has(body, "config") /\ Has(body.config, "polling_interval_ms")
  THEN body.config.polling_interval_ms
  ELSE cfg.pollIntervalMs

\* body.config?.timeout_ms ? Math.ceil(timeout_ms / pollIntervalMs) : config.maxPollAttempts
ResolveMaxPollAttempts(body, cfg) ==
  IF Has(body, "config") /\ Has(body.config, "timeout_ms")
     /\ body.config.timeout_ms # 0
  THEN CeilDiv(body.config.timeout_ms, ResolvePollInterval(body, cfg))
  ELSE cfg.maxPollAttempts

\* Accept that starts the background task without returning the Response.
AcceptNoResponse(s, body, cfg) ==
  LET s1 == ResolveTaskId([s EXCEPT !.body = body, !.threadId = body.thread_id],
                          body)
      s2 == [s1 EXCEPT
               !.messageId = RandomUUID(s1.id, s1.uuids + 1),
               !.uuids = @ + 1,
               !.pollIntervalMs = ResolvePollInterval(body, cfg),
               !.maxPollAttempts = ResolveMaxPollAttempts(body, cfg),
               !.sink = "open",
               !.events = [threadId |-> s1.threadId, runId |-> s1.taskId]]
  IN  StartTask(s2)

\* handleAGUIRun for a body that passed validation: ids, polling config,
\* stream, builder, the background task up to its first await, and the
\* returned Response.
Accept(s, body, cfg) ==
  LET s1 == ResolveTaskId([s EXCEPT !.body = body, !.threadId = body.thread_id],
                          body)
      s2 == [s1 EXCEPT
               !.messageId = RandomUUID(s1.id, s1.uuids + 1),
               !.uuids = @ + 1,
               !.pollIntervalMs = ResolvePollInterval(body, cfg),
               !.maxPollAttempts = ResolveMaxPollAttempts(body, cfg),
               !.sink = "open",
               !.events = [threadId |-> s1.threadId, runId |-> s1.taskId],
               !.response = [status |-> 200]]
  IN  StartTask(s2)

\* A 4xx JSON response; no stream, no background task.
Reject(s, body, message) ==
  [s EXCEPT !.pc = "rejected", !.body = body,
            !.response = [status |-> 400, error |-> message]]

\* An exception leaves handleAGUIRun before any response is built.
Throw(s, body) == [s EXCEPT !.pc = "threw", !.body = body]

----------------------------------------------------------------------------
(* Actions *)

\* POST /agui/run with a body that is not JSON.
HandleInvalidJSON(r) ==
  /\ runs[r].pc = "idle"
  /\ runs' = [runs EXCEPT ![r] = Reject(@, NoBody, "Invalid JSON body")]
  /\ UNCHANGED config

\* POST /agui/run with the body `null`: c.req.json() returns null and
\* body.thread_id throws a TypeError out of the handler, which returns no
\* response of its own.
HandleNullBody(r) ==
  /\ runs[r].pc = "idle"
  /\ runs' = [runs EXCEPT ![r] = Throw(@, NullBody)]
  /\ UNCHANGED config

\* POST /agui/run with a JSON body.
HandleAGUIRun(r, bodies) ==
  /\ runs[r].pc = "idle"
  /\ \E body \in bodies :
       runs' = [runs EXCEPT ![r] =
                  IF ValidationError(body) # ""
                  THEN Reject(@, body, ValidationError(body))
                  ELSE Accept(@, body, config)]
  /\ UNCHANGED config

\* A call of BinduClient has settled with c on the fetch outcome o.
Settle(s, o, c) ==
  [s EXCEPT !.lastCall = [outcome |-> o, settled |-> c],
            !.timersCleared = @ + (IF c.timerCleared THEN 1 ELSE 0)]

\* binduClient.sendMessage settles.
SendMessageReturn(r, failures) ==
  /\ runs[r].pc = "sendMessage"
  /\ \E o \in {Reply(Task("submitted"))} \cup failures :
       LET c == Call(o) IN
       runs' = [runs EXCEPT ![r] =
                  Settle(IF c.ok THEN OnSubmitted(@) ELSE OnSubmitError(@, c.error),
                         o, c)]
  /\ UNCHANGED config

\* The poll timer fires.
SleepReturn(r) ==
  /\ runs[r].pc = "sleep"
  /\ runs' = [runs EXCEPT ![r] = GetTask(@)]
  /\ UNCHANGED config

\* binduClient.getTask settles.
GetTaskReturn(r, snapshots, failures) ==
  /\ runs[r].pc = "getTask"
  /\ \E o \in {Reply(t) : t \in snapshots} \cup failures :
       LET c == Call(o) IN
       runs' = [runs EXCEPT ![r] =
                  Settle(IF c.ok THEN OnTask(@, c.result) ELSE OnTaskError(@, c.error),
                         o, c)]
  /\ UNCHANGED config

\* EmitReturn putting the written record ahead of the records already
\* delivered.
EmitReturnNewestFirst(r) ==
  /\ runs[r].pc = "emit"
  /\ LET s == runs[r]
         event == s.log[Len(s.log)].event
     IN  runs' = [runs EXCEPT ![r] =
           IF s.sink = "open"
           THEN AfterEmit([s EXCEPT !.delivered =
                                      <<FormatSSEEvent(event)>> \o @])
           ELSE AfterEmitError(
                  [s EXCEPT !.log = Append(@, [op |-> "emitRejected"])],
                  s.sinkError)]
  /\ UNCHANGED config

\* writer.write settles: on an open stream the record is delivered, on a
\* broken one the write rejects with the stream's error.
EmitReturn(r) ==
  /\ runs[r].pc = "emit"
  /\ LET s == runs[r]
         event == s.log[Len(s.log)].event
     IN  runs' = [runs EXCEPT ![r] =
           IF s.sink = "open"
           THEN AfterEmit([s EXCEPT !.delivered =
                                      Append(@, FormatSSEEvent(event))])
           ELSE AfterEmitError(
                  [s EXCEPT !.log = Append(@, [op |-> "emitRejected"])],
                  s.sinkError)]
  /\ UNCHANGED config

\* CloseReturn whose writer.close resolves in every state of the stream.
CloseReturnAlwaysOk(r) ==
  /\ runs[r].pc = "close"
  /\ runs' = [runs EXCEPT ![r] =
       [@ EXCEPT !.pc = "done",
                 !.sink = "closed",
                 !.log = Append(@, [op |-> "closeResult", ok |-> TRUE])]]
  /\ UNCHANGED config

\* CloseReturn whose finally block does not catch the rejection of close.
CloseReturnPropagates(r) ==
  /\ runs[r].pc = "close"
  /\ runs' = [runs EXCEPT ![r] =
       [@ EXCEPT !.pc = IF runs[r].sink = "open" THEN "done" ELSE "unhandled",
                 !.sink = IF @ = "open" THEN "closed" ELSE @,
                 !.log = Append(@, [op |-> "closeResult",
                                    ok |-> runs[r].sink = "open"])]]
  /\ UNCHANGED config

\* writer.close settles; a rejection is swallowed.
CloseReturn(r) ==
  /\ runs[r].pc = "close"
  /\ runs' = [runs EXCEPT ![r] =
       [@ EXCEPT !.pc = "done",
                 !.sink = IF @ = "open" THEN "closed" ELSE @,
                 !.log = Append(@, [op |-> "closeResult",
                                    ok |-> runs[r].sink = "open"])]]
  /\ UNCHANGED config

\* The consumer cancels the response body: the stream breaks.
ConsumerDisconnect(r, errors) ==
  /\ runs[r].sink = "open"
  /\ \E e \in errors :
       runs' = [runs EXCEPT ![r] = [@ EXCEPT !.sink = "errored", !.sinkError = e]]
  /\ UNCHANGED config

\* One handler invocation, with every input of the model.
Next ==
  \/ HandleInvalidJSON(1)
  \/ HandleNullBody(1)
  \/ HandleAGUIRun(1, Bodies)
  \/ SendMessageReturn(1, FetchFailures)
  \/ SleepReturn(1)
  \/ GetTaskReturn(1, TaskSnapshots, FetchFailures)
  \/ EmitReturn(1)
  \/ CloseReturn(1)
  \/ ConsumerDisconnect(1, SinkErrors)

Spec == Init /\ [][Next]_vars

\* Two handler invocations whose background tasks interleave at their
\* awaits, with fewer inputs each.
ConcurrentBodies ==
  { [thread_id |-> "t1", messages |-> <<Msg("user", "hi")>>],
    [thread_id |-> "t1", run_id |-> "r1",
     messages |-> <<Msg("user", "a"), Msg("assistant", "b")>>],
    [thread_id |-> "t2", run_id |-> "", messages |-> <<Msg("user", "hi")>>],
    [thread_id |-> "t2", run_id |-> "r2", messages |-> <<Msg("assistant", "a")>>] }

ConcurrentSnapshots ==
  { Task("working"), Task("failed"),
    TaskWith("completed", <<[parts |-> <<TextPart("hello")>>]>>) }

ConcurrentFailures ==
  { [kind |-> "fetchRejected",
     error |-> JsError("AbortError", "The operation was aborted")] }

ConcurrentSinkErrors == {[isError |-> TRUE, message |-> "stream closed"]}

InitConcurrent ==
  /\ runs = [r \in RunIds |-> IdleRun(r)]
  /\ config = [pollIntervalMs |-> DefaultPollIntervalMs, maxPollAttempts |-> 1]

NextConcurrent ==
  \E r \in RunIds :
    \/ HandleAGUIRun(r, ConcurrentBodies)
    \/ SendMessageReturn(r, ConcurrentFailures)
    \/ SleepReturn(r)
    \/ GetTaskReturn(r, ConcurrentSnapshots, ConcurrentFailures)
    \/ EmitReturn(r)
    \/ CloseReturn(r)
    \/ ConsumerDisconnect(r, ConcurrentSinkErrors)

SpecConcurrent == InitConcurrent /\ [][NextConcurrent]_vars

----------------------------------------------------------------------------
(* Observations on a run's trace *)

\* The indices of the trace entries of operation o.
Idx(s, o) == {i \in 1..Len(s.log) : s.log[i].op = o}

\* The indices of the emit calls, and of those of event type t.
EmitIdx(s) == Idx(s, "emit")

EmitIdxOf(s, t) == {i \in EmitIdx(s) : s.log[i].event.type = t}

\* The events passed to sse.emit, in call order.
Emitted(s) ==
  LET calls == SelectSeq(s.log, LAMBDA e : e.op = "emit")
  IN  [i \in 1..Len(calls) |-> calls[i].event]

\* The events the consumer has received, parsed from the wire records.
Delivered(s) == [i \in 1..Len(s.delivered) |-> s.delivered[i].data]

\* The indices of the events of type t in a sequence of events.
TypeIdx(evs, t) == {i \in 1..Len(evs) : evs[i].type = t}

TerminalIdx(evs) == TypeIdx(evs, "RUN_FINISHED") \cup TypeIdx(evs, "RUN_ERROR")

\* The polls that returned a snapshot, and the state each returned.
OkPollIdx(s) == {i \in Idx(s, "getTaskResult") : s.log[i].ok}

\* The request was accepted: a stream was opened and the task started.
Accepted(s) == s.response.status = 200

\* The background task has reached its finally block.
Closing(s) == s.pc \in {"close", "done"}

\* No write to the run's sink has failed and the consumer is connected.
SinkOk(s) == s.sink # "errored"

SubmitOk(s) == \E i \in Idx(s, "sendMessageResult") : s.log[i].ok

SubmitFailed(s) == \E i \in Idx(s, "sendMessageResult") : ~s.log[i].ok

----------------------------------------------------------------------------
(* C1 *)

\* C1: for a run whose request passed validation and whose sink never
\* fails, the delivered events hold at most one terminal event (RUN_FINISHED
\* or RUN_ERROR) at any time, a terminal event is the last event, and when
\* the task reaches the close of the stream exactly one terminal event has
\* been delivered and it is the last event emitted.
C1_ExactlyOneTerminalEvent ==
  \A r \in RunIds :
    LET s == runs[r]
        d == Delivered(s)
    IN  (Accepted(s) /\ SinkOk(s)) =>
          /\ Cardinality(TerminalIdx(d)) <= 1
          /\ TerminalIdx(d) \subseteq {Len(d)}
          /\ Closing(s) => /\ TerminalIdx(d) = {Len(d)}
                           /\ Len(d) >= 1
                           /\ d = Emitted(s)

\* A run that polled twice, delivered RUN_FINISHED after text messages and
\* closed its stream.
C1_Witness ==
  \E r \in RunIds :
    LET s == runs[r] IN
      /\ s.pc = "done" /\ s.sink = "closed"
      /\ Cardinality(OkPollIdx(s)) = 2
      /\ Len(s.delivered) >= 6
      /\ s.delivered[Len(s.delivered)].event = "RUN_FINISHED"

----------------------------------------------------------------------------
(* C2 *)

\* C2: RUN_STARTED is passed to emit at most once; it has been emitted
\* exactly when sendMessage has returned successfully; it is the first
\* event emitted (and the first delivered, when delivered); its emit comes
\* after the sendMessage result and before every getTask call.
C2_RunStartedOnceAfterSubmit ==
  \A r \in RunIds :
    LET s == runs[r]
        started == EmitIdxOf(s, "RUN_STARTED")
    IN  /\ Cardinality(started) <= 1
        /\ (started # {}) <=> SubmitOk(s)
        /\ TypeIdx(Emitted(s), "RUN_STARTED") \subseteq {1}
        /\ TypeIdx(Delivered(s), "RUN_STARTED") \subseteq {1}
        /\ \A i \in started :
             /\ \E j \in Idx(s, "sendMessageResult") : j < i /\ s.log[j].ok
             /\ \A j \in Idx(s, "getTask") : i < j
        /\ Idx(s, "getTask") # {} => started # {}

\* A run that emitted RUN_STARTED and then queried the task status.
C2_Witness ==
  \E r \in RunIds :
    LET s == runs[r] IN
      /\ EmitIdxOf(s, "RUN_STARTED") # {}
      /\ Cardinality(Idx(s, "getTask")) = 2
      /\ s.pc = "done"

----------------------------------------------------------------------------
(* C3 *)

\* The identifiers of run s are stamped on everything the run sends: every
\* event passed to emit and every record delivered to its sink, the
\* sendMessage call (contextId, taskId) and every getTask call; the sink of
\* a run receives only events that run emitted, in order.
CarriesOwnPair(s) ==
  /\ s.threadId = s.body.thread_id
  /\ \A i \in EmitIdx(s) :
       /\ s.log[i].event.thread_id = s.threadId
       /\ s.log[i].event.run_id = s.taskId
  /\ Len(s.delivered) <= Len(Emitted(s))
  /\ \A i \in 1..Len(s.delivered) :
       /\ Delivered(s)[i] = Emitted(s)[i]
       /\ s.delivered[i].data.thread_id = s.threadId
       /\ s.delivered[i].data.run_id = s.taskId
  /\ \A i \in Idx(s, "sendMessage") :
       /\ s.log[i].message.contextId = s.threadId
       /\ s.log[i].message.taskId = s.taskId
  /\ \A i \in Idx(s, "getTask") : s.log[i].taskId = s.taskId

\* No event of run s carries the pair of another run with a different pair.
NoForeignPair(s) ==
  \A q \in RunIds :
    (Accepted(runs[q]) /\ <<runs[q].threadId, runs[q].taskId>> # <<s.threadId, s.taskId>>)
      => \A i \in EmitIdx(s) :
           <<s.log[i].event.thread_id, s.log[i].event.run_id>>
             # <<runs[q].threadId, runs[q].taskId>>

\* The identifiers run r generates.
GeneratedIds(r) == {RandomUUID(r, n) : n \in 1..runs[r].uuids}

\* C3 as stated: with runs executing concurrently, everything a run sends
\* carries that run's threadId and taskId, where taskId is the caller's
\* run_id whenever the request supplies one and a generated id otherwise.
C3_OwnPairRunIdWhenSupplied ==
  \A r \in RunIds :
    LET s == runs[r] IN
      Accepted(s) =>
        /\ CarriesOwnPair(s)
        /\ NoForeignPair(s)
        /\ IF Has(s.body, "run_id")
           THEN s.taskId = s.body.run_id
           ELSE s.taskId \in GeneratedIds(r)

\* C3 amended: taskId is the caller's run_id when it is supplied and
\* non-empty, and a generated id when it is absent or the empty string;
\* everything a run sends carries that run's threadId and taskId, the pair
\* is the same in every operation of the run, and a sink receives only its
\* own run's events.
C3_OwnPairRunIdWhenNonEmpty ==
  \A r \in RunIds :
    LET s == runs[r] IN
      Accepted(s) =>
        /\ CarriesOwnPair(s)
        /\ NoForeignPair(s)
        /\ IF Has(s.body, "run_id") /\ s.body.run_id # ""
           THEN s.taskId = s.body.run_id
           ELSE s.taskId \in GeneratedIds(r)

\* Two runs in flight at once, one with a caller-chosen run_id and one with
\* a generated task id, each with events delivered to its own sink.
C3_Witness ==
  /\ runs[1].pc = "getTask" /\ runs[2].pc = "emit"
  /\ Len(runs[1].delivered) >= 1 /\ Len(runs[2].delivered) >= 2
  /\ runs[1].taskId = "r1"
  /\ runs[2].taskId \in GeneratedIds(2)
  /\ Has(runs[2].body, "run_id")

----------------------------------------------------------------------------
(* C4 *)

SetMax(S) == CHOOSE x \in S : \A y \in S : y <= x

\* The state observed before trace entry i: that of the latest poll that
\* returned a snapshot, `submitted` when there is none.
PrevState(s, i) ==
  LET before == {j \in OkPollIdx(s) : j < i}
  IN  IF before = {} THEN "submitted" ELSE s.log[SetMax(before)].state

IsStateDeltaEmit(s, i) ==
  /\ i \in EmitIdx(s)
  /\ s.log[i].event.type = "STATE_DELTA"

\* The states carried by the STATE_DELTA events passed to emit, in order.
DeltaStates(s) ==
  LET ds == SelectSeq(Emitted(s), LAMBDA e : e.type = "STATE_DELTA")
  IN  [i \in 1..Len(ds) |-> ds[i].delta.bindu_state]

\* C4: a poll that returns a snapshot is followed at once by the emit of a
\* STATE_DELTA carrying the polled state if and only if that state differs
\* from the last-observed state (initially `submitted`), and no STATE_DELTA
\* is emitted otherwise; so the first STATE_DELTA never carries `submitted`
\* and no two consecutive STATE_DELTA events carry the same state.
C4_StateDeltaIffStateChanged ==
  \A r \in RunIds :
    LET s == runs[r]
        ds == DeltaStates(s)
    IN  /\ \A i \in OkPollIdx(s) :
             /\ i < Len(s.log)
             /\ IsStateDeltaEmit(s, i + 1) <=> s.log[i].state # PrevState(s, i)
             /\ IsStateDeltaEmit(s, i + 1) =>
                  s.log[i + 1].event.delta.bindu_state = s.log[i].state
        /\ \A k \in EmitIdxOf(s, "STATE_DELTA") : (k - 1) \in OkPollIdx(s)
        /\ Len(ds) >= 1 => ds[1] # "submitted"
        /\ \A n \in 1..(Len(ds) - 1) : ds[n] # ds[n + 1]

\* A run whose two polls both returned `working`: one STATE_DELTA only.
C4_Witness ==
  \E r \in RunIds :
    LET s == runs[r] IN
      /\ s.pc = "done"
      /\ Cardinality(OkPollIdx(s)) = 2
      /\ \A i \in OkPollIdx(s) : s.log[i].state = "working"
      /\ DeltaStates(s) = <<"working">>

----------------------------------------------------------------------------
(* C9 *)

\* C9: after a poll has returned `completed`, `canceled` or `failed`, the
\* run issues no further getTask call (and no sleep), and the only
\* STATE_DELTA it may still emit is the one that reports this state, right
\* after the poll.
C9_NoPollingAfterTerminalState ==
  \A r \in RunIds :
    LET s == runs[r] IN
      \A i \in OkPollIdx(s) :
        s.log[i].state \in {"completed", "canceled", "failed"} =>
          /\ \A j \in Idx(s, "getTask") \cup Idx(s, "sleep") : j < i
          /\ \A k \in EmitIdxOf(s, "STATE_DELTA") :
               k > i => /\ k = i + 1
                        /\ s.log[k].event.delta.bindu_state = s.log[i].state

\* A run with a budget of two attempts whose first poll returned `canceled`
\* and that has ended.
C9_Witness ==
  \E r \in RunIds :
    LET s == runs[r] IN
      /\ s.pc = "done"
      /\ s.maxPollAttempts = 2
      /\ Cardinality(Idx(s, "getTask")) = 1
      /\ \E i \in OkPollIdx(s) : s.log[i].state = "canceled"

----------------------------------------------------------------------------
(* C10 *)

\* C10: sse.close is called at most once in a run and no emit follows it;
\* the close is called exactly when the background task reaches its finally
\* block, and a task that has ended has called it exactly once, whatever
\* the path (no user message, submit failure, terminal state, status
\* failure, timeout, rejected write).
C10_CloseExactlyOnceAndLast ==
  \A r \in RunIds :
    LET s == runs[r]
        closes == Idx(s, "close")
    IN  /\ Cardinality(closes) <= 1
        /\ \A c \in closes : \A i \in EmitIdx(s) : i < c
        /\ Closing(s) <=> closes # {}
        /\ Accepted(s) => s.pc \in {"sendMessage", "sleep", "getTask", "emit",
                                    "close", "done"}
        /\ s.pc = "done" => Cardinality(closes) = 1

\* A run that ended after a rejected write: the error emit of the catch
\* block was attempted and the stream was then closed once.
C10_Witness ==
  \E r \in RunIds :
    LET s == runs[r] IN
      /\ s.pc = "done"
      /\ Idx(s, "emitRejected") # {}
      /\ Cardinality(Idx(s, "close")) = 1
      /\ Cardinality(EmitIdxOf(s, "RUN_ERROR")) >= 1

----------------------------------------------------------------------------
(* C5 *)

\* An accepted request none of whose messages has role `user`.
NoUserMessage(s) ==
  /\ Accepted(s)
  /\ \A i \in 1..Len(s.body.messages) : s.body.messages[i].role # "user"

\* No write of the run has been rejected.
NoRejectedWrite(s) == Idx(s, "emitRejected") = {}

\* C5 as stated: a request with messages but no `user` message never calls
\* sendMessage or getTask, emits no RUN_STARTED and no STATE_DELTA, and its
\* stream, once the task has ended, consists of exactly one RUN_ERROR.
C5_NoUserMessageOneRunError ==
  \A r \in RunIds :
    LET s == runs[r] IN
      NoUserMessage(s) =>
        /\ Idx(s, "sendMessage") = {} /\ Idx(s, "getTask") = {}
        /\ EmitIdxOf(s, "RUN_STARTED") = {} /\ EmitIdxOf(s, "STATE_DELTA") = {}
        /\ s.pc = "done" =>
             /\ Len(s.delivered) = 1
             /\ s.delivered[1].event = "RUN_ERROR"

\* C5 amended: such a request never calls sendMessage or getTask and emits
\* only RUN_ERROR events, the first being 'No user messages to send';
\* provided the write of that event is not rejected it is the only event
\* emitted and the stream consists of exactly that RUN_ERROR, followed by
\* the close; when the write is rejected nothing is delivered and the catch
\* block attempts one more RUN_ERROR before the close.
C5_NoUserMessageOneRunErrorUnlessRejected ==
  \A r \in RunIds :
    LET s == runs[r]
        e == Emitted(s)
        first == RunErrorEvent(s.events, "No user messages to send", <<>>)
    IN  NoUserMessage(s) =>
          /\ Idx(s, "sendMessage") = {} /\ Idx(s, "getTask") = {}
          /\ Len(e) >= 1 /\ e[1] = first
          /\ \A i \in 1..Len(e) : e[i].type = "RUN_ERROR"
          /\ (NoRejectedWrite(s) /\ Closing(s)) =>
               /\ e = <<first>>
               /\ Delivered(s) = e
               /\ s.log[Len(e) + 1].op = "close"
          /\ ~NoRejectedWrite(s) => /\ s.delivered = <<>>
                                    /\ Len(e) = 2

\* A run without user message that delivered its RUN_ERROR and closed.
C5_Witness ==
  \E r \in RunIds :
    LET s == runs[r] IN
      /\ NoUserMessage(s) /\ s.pc = "done" /\ s.sink = "closed"
      /\ Len(s.delivered) = 1

----------------------------------------------------------------------------
(* C6 *)

\* sendMessage succeeded and every status query so far returned a
\* non-terminal state, maxPollAttempts of them (or more).
BudgetExhausted(s) ==
  /\ SubmitOk(s)
  /\ \A i \in Idx(s, "getTaskResult") :
       s.log[i].ok /\ s.log[i].state \notin {"completed", "canceled", "failed"}
  /\ Cardinality(Idx(s, "getTaskResult")) >= s.maxPollAttempts

TimeoutIdx(s) ==
  {i \in EmitIdxOf(s, "RUN_ERROR") : s.log[i].event.error.message = "Polling timeout"}

NonNeg(n) == IF n < 0 THEN 0 ELSE n

\* C6 as stated: when sendMessage succeeds and maxPollAttempts consecutive
\* status queries succeed with non-terminal states, the run issues no
\* further status query, emits no RUN_FINISHED and, by the time it has
\* ended, has emitted exactly one RUN_ERROR with message "Polling timeout".
C6_TimeoutAfterBudget ==
  \A r \in RunIds :
    LET s == runs[r] IN
      BudgetExhausted(s) =>
        /\ Cardinality(Idx(s, "getTask")) = NonNeg(s.maxPollAttempts)
        /\ EmitIdxOf(s, "RUN_FINISHED") = {}
        /\ s.pc = "done" => Cardinality(TimeoutIdx(s)) = 1

\* C6 amended: in that case the run issues no further status query and
\* emits no RUN_FINISHED; provided no write to the sink is rejected, by the
\* time it reaches the close it has emitted exactly one RUN_ERROR, with
\* message "Polling timeout", as its last event.  (A rejected write, for
\* instance of the last poll's STATE_DELTA, ends the run with the write
\* error instead.)
C6_TimeoutAfterBudgetUnlessRejected ==
  \A r \in RunIds :
    LET s == runs[r]
        e == Emitted(s)
    IN  BudgetExhausted(s) =>
          /\ Cardinality(Idx(s, "getTask")) = NonNeg(s.maxPollAttempts)
          /\ EmitIdxOf(s, "RUN_FINISHED") = {}
          /\ Cardinality(TimeoutIdx(s)) <= 1
          /\ (Closing(s) /\ NoRejectedWrite(s)) =>
               /\ Cardinality(TimeoutIdx(s)) = 1
               /\ TimeoutIdx(s) = EmitIdxOf(s, "RUN_ERROR")
               /\ e[Len(e)] = RunErrorEvent(s.events, "Polling timeout", <<>>)
               /\ Delivered(s) = e

\* A run with a budget of two whose two polls were non-terminal and whose
\* stream ended with the timeout error.
C6_Witness ==
  \E r \in RunIds :
    LET s == runs[r] IN
      /\ s.pc = "done" /\ s.sink = "closed"
      /\ s.maxPollAttempts = 2
      /\ BudgetExhausted(s)
      /\ Cardinality(TimeoutIdx(s)) = 1

----------------------------------------------------------------------------
(* C7 *)

\* The outcomes of the run's status queries, in order.
PollResults(s) == SelectSeq(s.log, LAMBDA e : e.op = "getTaskResult")

\* The scenario: one user message, sendMessage succeeded, the first poll
\* returned `working`, the second `completed` with one text part "hello",
\* and the task has ended.
HelloScenario(s) ==
  /\ s.pc = "done"
  /\ s.body = [thread_id |-> "t1", messages |-> <<Msg("user", "hi")>>]
  /\ SubmitOk(s)
  /\ Len(PollResults(s)) = 2
  /\ PollResults(s)[1].ok /\ PollResults(s)[1].state = "working"
  /\ PollResults(s)[2].ok /\ PollResults(s)[2].state = "completed"
  /\ s.currentTask = TaskWith("completed", <<[parts |-> <<TextPart("hello")>>]>>)

\* The scenario's event sequence, with message id m.
HelloEvents(b, m) ==
  << Base(b, "RUN_STARTED"),
     Base(b, "STATE_DELTA") @@ [delta |-> [bindu_state |-> "working"]],
     Base(b, "STATE_DELTA") @@ [delta |-> [bindu_state |-> "completed"]],
     Base(b, "TEXT_MESSAGE_START") @@ [message_id |-> m, role |-> "assistant"],
     Base(b, "TEXT_MESSAGE_CONTENT") @@ [message_id |-> m, content |-> "hello"],
     Base(b, "TEXT_MESSAGE_END") @@ [message_id |-> m],
     Base(b, "RUN_FINISHED") >>

\* C7 as stated: in the scenario the events emitted are exactly RUN_STARTED,
\* STATE_DELTA(working), STATE_DELTA(completed), TEXT_MESSAGE_START,
\* TEXT_MESSAGE_CONTENT("hello"), TEXT_MESSAGE_END, RUN_FINISHED, they are
\* the stream, the close follows, and two status queries were issued.
C7_HelloScenarioSequence ==
  \A r \in RunIds :
    LET s == runs[r]
        b == [threadId |-> s.threadId, runId |-> s.taskId]
    IN  HelloScenario(s) =>
          /\ Emitted(s) = HelloEvents(b, s.msgId)
          /\ Delivered(s) = Emitted(s)
          /\ Cardinality(Idx(s, "getTask")) = 2
          /\ Cardinality(Idx(s, "close")) = 1

\* C7 amended: the same, provided no write to the sink is rejected (a
\* rejected write replaces the rest of the sequence by one RUN_ERROR attempt
\* and the close).
C7_HelloScenarioSequenceUnlessRejected ==
  \A r \in RunIds :
    LET s == runs[r]
        b == [threadId |-> s.threadId, runId |-> s.taskId]
    IN  HelloScenario(s) =>
          /\ Cardinality(Idx(s, "getTask")) = 2
          /\ Cardinality(Idx(s, "close")) = 1
          /\ NoRejectedWrite(s) =>
               /\ Emitted(s) = HelloEvents(b, s.msgId)
               /\ Delivered(s) = Emitted(s)
               /\ \A i \in EmitIdx(s) \cup Idx(s, "getTask") :
                    \A c \in Idx(s, "close") : i < c

\* The scenario, run to its end with every write delivered.
C7_Witness ==
  \E r \in RunIds :
    LET s == runs[r] IN
      /\ HelloScenario(s) /\ NoRejectedWrite(s) /\ s.sink = "closed"
      /\ Len(s.delivered) = 7

----------------------------------------------------------------------------
(* C8 *)

\* The message of the error sendMessage rejected with.
SubmitErrorMessage(s) ==
  LET i == CHOOSE i \in Idx(s, "sendMessageResult") : TRUE
  IN  s.log[i].error.message

\* C8 as stated: when sendMessage fails, the stream of the ended run
\* contains exactly one event, a RUN_ERROR carrying the failure's message;
\* RUN_STARTED is never emitted and getTask is never called.
C8_SubmitFailureOneRunError ==
  \A r \in RunIds :
    LET s == runs[r] IN
      SubmitFailed(s) =>
        /\ EmitIdxOf(s, "RUN_STARTED") = {}
        /\ Idx(s, "getTask") = {}
        /\ s.pc = "done" =>
             Delivered(s) = <<RunErrorEvent(s.events, SubmitErrorMessage(s), <<>>)>>

\* C8 amended: when sendMessage fails, exactly one event is passed to emit,
\* a RUN_ERROR carrying the failure's message, and the close follows;
\* RUN_STARTED is never emitted and getTask is never called; the stream
\* contains that one event unless its write is rejected, and is empty then.
C8_SubmitFailureOneRunErrorEmitted ==
  \A r \in RunIds :
    LET s == runs[r]
        err == RunErrorEvent(s.events, SubmitErrorMessage(s), <<>>)
    IN  SubmitFailed(s) =>
          /\ Emitted(s) = <<err>>
          /\ Idx(s, "getTask") = {} /\ Idx(s, "sleep") = {}
          /\ s.pc = "done" =>
               /\ Cardinality(Idx(s, "close")) = 1
               /\ Delivered(s) = IF NoRejectedWrite(s) THEN <<err>> ELSE <<>>

\* A run whose sendMessage failed and whose RUN_ERROR was delivered before
\* the close.
C8_Witness ==
  \E r \in RunIds :
    LET s == runs[r] IN
      /\ SubmitFailed(s) /\ s.pc = "done" /\ s.sink = "closed"
      /\ Len(s.delivered) = 1
      /\ s.delivered[1].data.error.message = "Request timeout"

----------------------------------------------------------------------------
(* C11 *)

\* Every awaited operation of the background task settles: sendMessage and
\* getTask return or throw (BinduClient.call aborts a request after
\* config.timeoutMs), the poll timer fires, a write to the sink resolves or
\* rejects, and writer.close settles.  Nothing is required of the arrival of
\* requests or of the consumer's disconnects.
Fairness ==
  /\ WF_vars(SendMessageReturn(1, FetchFailures))
  /\ WF_vars(SleepReturn(1))
  /\ WF_vars(GetTaskReturn(1, TaskSnapshots, FetchFailures))
  /\ WF_vars(EmitReturn(1))
  /\ WF_vars(CloseReturn(1))

SpecFair == Init /\ [][Next]_vars /\ Fairness

\* The background task has called sse.close and has ended.
Terminated(s) == s.pc = "done" /\ Idx(s, "close") # {}

\* C11: when every awaited operation settles, every accepted run eventually
\* calls close on its stream and its background task ends; the poll loop is
\* bounded by the attempt count alone (no clock is part of the state).
C11_AcceptedRunTerminates ==
  \A r \in RunIds : Accepted(runs[r]) ~> Terminated(runs[r])

\* A run that used its whole attempt budget on non-terminal states, emitted
\* the timeout error, closed its stream and ended.
C11_Witness ==
  \E r \in RunIds :
    LET s == runs[r] IN
      /\ Accepted(s) /\ Terminated(s) /\ s.sink = "closed"
      /\ s.maxPollAttempts = MaxAttempts
      /\ Cardinality(OkPollIdx(s)) = MaxAttempts
      /\ s.lastState \notin TERMINAL_STATES

----------------------------------------------------------------------------
(* C12 *)

\* The request was accepted and has at least one `user` message.
HasUserMessage(s) == Accepted(s) /\ ~NoUserMessage(s)

\* The number of getTask calls the run has issued.
PollCalls(s) == Cardinality(Idx(s, "getTask"))

\* C12 as stated: an accepted run with a `user` message issues exactly one
\* sendMessage call; when that call succeeded, the run issues at most
\* maxPollAttempts getTask calls and, by the time it has ended, at least one.
C12_OneSubmitOneToMaxPolls ==
  \A r \in RunIds :
    LET s == runs[r] IN
      HasUserMessage(s) =>
        /\ Cardinality(Idx(s, "sendMessage")) = 1
        /\ SubmitOk(s) => /\ PollCalls(s) <= s.maxPollAttempts
                          /\ s.pc = "done" => PollCalls(s) >= 1

\* C12 amended: exactly one sendMessage call; when it succeeded, at most
\* max(0, maxPollAttempts) getTask calls, and at least one by the end of the
\* run when maxPollAttempts >= 1 and the write of RUN_STARTED was not
\* rejected.
C12_OneSubmitPollsWithinBudget ==
  \A r \in RunIds :
    LET s == runs[r] IN
      HasUserMessage(s) =>
        /\ Cardinality(Idx(s, "sendMessage")) = 1
        /\ ~SubmitOk(s) => PollCalls(s) = 0
        /\ SubmitOk(s) =>
             /\ PollCalls(s) <= NonNeg(s.maxPollAttempts)
             /\ (/\ s.pc = "done"
                 /\ s.maxPollAttempts >= 1
                 /\ TypeIdx(Delivered(s), "RUN_STARTED") # {}) => PollCalls(s) >= 1

\* A run that issued its whole budget of getTask calls, and ended.
C12_Witness ==
  \E r \in RunIds :
    LET s == runs[r] IN
      /\ HasUserMessage(s) /\ SubmitOk(s) /\ s.pc = "done"
      /\ s.maxPollAttempts = MaxAttempts
      /\ PollCalls(s) = MaxAttempts

----------------------------------------------------------------------------
(* C13 *)

\* A poll of the run returned `completed`.
CompletedPolled(s) == \E i \in OkPollIdx(s) : s.log[i].state = "completed"

\* The texts of the parts of kind `text` with a non-empty text, in part order.
RECURSIVE PartTexts(_)
PartTexts(parts) ==
  IF parts = <<>> THEN <<>>
  ELSE LET part == Head(parts)
           here == IF part.kind = "text" /\ Has(part, "text") /\ part.text # ""
                   THEN <<part.text>> ELSE <<>>
       IN  here \o PartTexts(Tail(parts))

\* The same over the artifacts of a task, in artifact order then part order.
RECURSIVE ArtifactTexts(_)
ArtifactTexts(artifacts) ==
  IF artifacts = <<>> THEN <<>>
  ELSE PartTexts(Head(artifacts).parts) \o ArtifactTexts(Tail(artifacts))

TaskTexts(task) ==
  IF Has(task, "artifacts") THEN ArtifactTexts(task.artifacts) ELSE <<>>

\* The events passed to emit after STATE_DELTA(completed).
AfterCompleted(s) ==
  LET evs == Emitted(s)
      at == {i \in TypeIdx(evs, "STATE_DELTA") :
               evs[i].delta.bindu_state = "completed"}
  IN  IF at = {} THEN <<>> ELSE SubSeq(evs, SetMax(at) + 1, Len(evs))

\* evs is a prefix of: one START/CONTENT/END triple per text, each triple
\* with its own message id, then RUN_FINISHED.
TriplesPrefix(evs, texts, b) ==
  LET n == Len(texts) IN
  /\ Len(evs) <= 3 * n + 1
  /\ \A i \in 1..Len(evs) :
       LET j == (i + 2) \div 3
           id == evs[3 * j - 2].message_id
       IN  IF i = 3 * n + 1 THEN evs[i] = RunFinishedEvent(b)
           ELSE CASE i % 3 = 1 -> /\ evs[i].type = "TEXT_MESSAGE_START"
                                  /\ evs[i] = TextMessageStartEvent(b, id, "assistant")
                  [] i % 3 = 2 -> evs[i] = TextMessageContentEvent(b, id, texts[j])
                  [] i % 3 = 0 -> evs[i] = TextMessageEndEvent(b, id)
  /\ \A i, k \in TypeIdx(evs, "TEXT_MESSAGE_START") :
       i # k => evs[i].message_id # evs[k].message_id

\* C13 as stated: once a poll has returned `completed` and the run has
\* ended, the events emitted after STATE_DELTA(completed) are exactly one
\* START(assistant)/CONTENT(text)/END triple per non-empty text part, in
\* artifact order then part order, each triple with its own message id,
\* followed by RUN_FINISHED (which follows STATE_DELTA(completed) directly
\* when there is no such part).
C13_ArtifactTriplesThenFinished ==
  \A r \in RunIds :
    LET s == runs[r]
        texts == TaskTexts(s.currentTask)
    IN  (CompletedPolled(s) /\ s.pc = "done") =>
          /\ TriplesPrefix(AfterCompleted(s), texts, s.events)
          /\ Len(AfterCompleted(s)) = 3 * Len(texts) + 1

\* C13 amended: the same provided no write to the sink is rejected; while
\* the run is in progress the events emitted after STATE_DELTA(completed)
\* are a prefix of that sequence.
C13_ArtifactTriplesThenFinishedUnlessRejected ==
  \A r \in RunIds :
    LET s == runs[r]
        texts == TaskTexts(s.currentTask)
    IN  (CompletedPolled(s) /\ NoRejectedWrite(s)) =>
          /\ TypeIdx(Emitted(s), "STATE_DELTA") # {}
          /\ TriplesPrefix(AfterCompleted(s), texts, s.events)
          /\ s.pc \in {"close", "done"} =>
               Len(AfterCompleted(s)) = 3 * Len(texts) + 1

\* A completed task with two artifacts, whose parts "a" and "b" (among a
\* file part, a data part and an empty text) were emitted as two triples
\* before RUN_FINISHED, all delivered.
C13_Witness ==
  \E r \in RunIds :
    LET s == runs[r] IN
      /\ CompletedPolled(s) /\ NoRejectedWrite(s) /\ s.pc = "done"
      /\ TaskTexts(s.currentTask) = <<"a", "b">>
      /\ Len(AfterCompleted(s)) = 7
      /\ Delivered(s) = Emitted(s)

----------------------------------------------------------------------------
(* C14 *)

\* A poll of the run returned state st.
Polled(s, st) == \E i \in OkPollIdx(s) : s.log[i].state = st

\* The RUN_ERROR that reports state st (`failed` or `canceled`).
TaskErrorEvent(b, st) ==
  [type |-> "RUN_ERROR", thread_id |-> b.threadId, run_id |-> b.runId,
   error |-> IF st = "failed" THEN [message |-> "Task failed"]
             ELSE [message |-> "Task canceled", code |-> -32000]]

TextMessageTypes ==
  {"TEXT_MESSAGE_START", "TEXT_MESSAGE_CONTENT", "TEXT_MESSAGE_END"}

----------------------------------------------------------------------------
(* C15 *)

\* The trace entries of the getTask calls that failed.
PollFailureIdx(s) == {i \in Idx(s, "getTaskResult") : ~s.log[i].ok}

PollFailed(s) == PollFailureIdx(s) # {}

\* C15 as stated: when a getTask call fails, no later getTask call is
\* issued, no "Polling timeout" is emitted, and the ended run has emitted
\* exactly one RUN_ERROR, carrying the failure's message.
C15_PollFailureOneRunError ==
  \A r \in RunIds :
    LET s == runs[r] IN
      \A f \in PollFailureIdx(s) :
        /\ \A i \in Idx(s, "getTask") \cup Idx(s, "sleep") : i < f
        /\ TimeoutIdx(s) = {}
        /\ s.pc = "done" =>
             /\ Cardinality(EmitIdxOf(s, "RUN_ERROR")) = 1
             /\ \A i \in EmitIdxOf(s, "RUN_ERROR") :
                  s.log[i].event.error = [message |-> s.log[f].error.message]

\* C15 amended: when a getTask call fails, the next operation of the run is
\* the emit of a RUN_ERROR carrying the failure's message; no later getTask
\* call or sleep is issued and no "Polling timeout" is emitted; that
\* RUN_ERROR is the only one unless its write is rejected, in which case one
\* more RUN_ERROR (carrying the write error) is attempted and none is
\* delivered.
C15_PollFailureRunErrorNoRetry ==
  \A r \in RunIds :
    LET s == runs[r] IN
      \A f \in PollFailureIdx(s) :
        /\ \A i \in Idx(s, "getTask") \cup Idx(s, "sleep") : i < f
        /\ TimeoutIdx(s) = {}
        /\ EmitIdxOf(s, "RUN_FINISHED") = {}
        /\ f + 1 \in EmitIdxOf(s, "RUN_ERROR")
        /\ s.log[f + 1].event.error = [message |-> s.log[f].error.message]
        /\ EmitIdxOf(s, "RUN_ERROR") =
             IF NoRejectedWrite(s) THEN {f + 1} ELSE {f + 1, f + 3}
        /\ s.pc = "done" =>
             TypeIdx(Delivered(s), "RUN_ERROR") =
               IF NoRejectedWrite(s) THEN {Len(Delivered(s))} ELSE {}

\* A run whose getTask call failed at the last attempt of its budget, with
\* the RUN_ERROR delivered and the stream closed.
C15_Witness ==
  \E r \in RunIds :
    LET s == runs[r] IN
      /\ PollFailed(s) /\ s.pc = "done" /\ s.sink = "closed"
      /\ s.maxPollAttempts = MaxAttempts
      /\ PollCalls(s) = MaxAttempts
      /\ s.delivered[Len(s.delivered)].data.error = [message |-> "Request timeout"]

----------------------------------------------------------------------------
(* C16 *)

\* The request body is not valid JSON, or its thread_id is missing or
\* empty, or its messages list is missing or empty.
InvalidRequest(s) ==
  /\ s.pc # "idle"
  /\ \/ s.body = NoBody
     \/ ~Has(s.body, "thread_id")
     \/ s.body.thread_id = ""
     \/ ~Has(s.body, "messages")
     \/ s.body.messages = <<>>

\* No stream was opened, no background task was started, no call was made
\* and no event was emitted.
NothingStarted(s) ==
  /\ s.sink = "none"
  /\ s.log = <<>>
  /\ s.delivered = <<>>
  /\ s.pc \in {"rejected", "threw"}

\* C16 as stated: a request whose body is not valid JSON, whose thread_id is
\* missing or empty, or whose messages list is missing or empty gets a 400
\* response, and nothing is started for it.
C16_InvalidRequestRejected400 ==
  \A r \in RunIds :
    LET s == runs[r] IN
      InvalidRequest(s) => s.response.status = 400 /\ NothingStarted(s)

\* The body `null` (valid JSON, no thread_id): the handler threw, without a
\* 400 response.
C16_Witness ==
  \E r \in RunIds :
    LET s == runs[r] IN
      /\ InvalidRequest(s) /\ s.body = NullBody
      /\ s.pc = "threw" /\ s.response.status # 400

\* C16, for every body but `null`: the request gets a 400 response and
\* nothing is started for it.
C16_NonNullInvalidRequestRejected400 ==
  \A r \in RunIds :
    LET s == runs[r] IN
      (InvalidRequest(s) /\ s.body # NullBody) =>
        /\ s.response.status = 400
        /\ NothingStarted(s)
        /\ s.pc = "rejected"

----------------------------------------------------------------------------
(* C17 *)

\* The request has a non-empty messages list without a `user` entry.
NoUserRequest(s) ==
  /\ s.pc # "idle"
  /\ Has(s.body, "messages")
  /\ s.body.messages # <<>>
  /\ \A i \in 1..Len(s.body.messages) : s.body.messages[i].role # "user"

\* C17 as stated: a request whose non-empty messages list has no `user`
\* entry gets a 4xx response before any stream is opened, and nothing is
\* reported as a stream event.
C17_NoUserMessageRejectedSynchronously ==
  \A r \in RunIds :
    LET s == runs[r] IN
      NoUserRequest(s) =>
        /\ s.response.status \in 400..499
        /\ s.sink = "none"
        /\ Emitted(s) = <<>>

\* C17 amended: such a request (with a thread_id) is accepted: the response
\* is the event stream, no sendMessage or getTask call is made, and the
\* condition is reported as the first event emitted, a RUN_ERROR with
\* message "No user messages to send", which is the whole stream of the
\* ended run when its write is not rejected.
C17_NoUserMessageReportedInStream ==
  \A r \in RunIds :
    LET s == runs[r]
        err == [type |-> "RUN_ERROR", thread_id |-> s.threadId,
                run_id |-> s.taskId,
                error |-> [message |-> "No user messages to send"]]
    IN  (NoUserRequest(s) /\ Has(s.body, "thread_id") /\ s.body.thread_id # "") =>
          /\ s.response.status = 200
          /\ s.sink # "none"
          /\ Idx(s, "sendMessage") = {} /\ Idx(s, "getTask") = {}
          /\ Len(Emitted(s)) >= 1 /\ Emitted(s)[1] = err
          /\ (s.pc = "done" /\ NoRejectedWrite(s)) => Delivered(s) = <<err>>

\* A request with a system and an assistant message only, answered with a
\* stream whose single event is the RUN_ERROR, then closed.
C17_Witness ==
  \E r \in RunIds :
    LET s == runs[r] IN
      /\ NoUserRequest(s) /\ Len(s.body.messages) = 2
      /\ s.response.status = 200 /\ s.pc = "done" /\ s.sink = "closed"
      /\ Len(s.delivered) = 1
      /\ s.delivered[1].data.error.message = "No user messages to send"

----------------------------------------------------------------------------
(* C18 *)

IsPrefix(p, q) == Len(p) <= Len(q) /\ \A i \in 1..Len(p) : p[i] = q[i]

\* C18: the records received from a run's stream are, in order, the events
\* passed to emit for that run up to some point: the delivered sequence is
\* always a prefix of the emitted sequence, each record named by its event's
\* type.
C18_DeliveredPrefixOfEmitted ==
  \A r \in RunIds :
    LET s == runs[r] IN
      /\ IsPrefix(Delivered(s), Emitted(s))
      /\ \A i \in 1..Len(s.delivered) :
           s.delivered[i].event = Emitted(s)[i].type

\* An ended run whose consumer received three events or more and missed the
\* later ones (a strict prefix).
C18_Witness ==
  \E r \in RunIds :
    LET s == runs[r] IN
      /\ s.pc = "done"
      /\ Len(s.delivered) >= 3
      /\ Len(Emitted(s)) > Len(s.delivered)

----------------------------------------------------------------------------
(* C19 *)

\* The trace entries of the outcomes of sse.close().
CloseResultIdx(s) == Idx(s, "closeResult")

\* sse.close() raised: its writer.close() rejected.
CloseRaised(s) == \E i \in CloseResultIdx(s) : ~s.log[i].ok

\* C19 as stated: sse.close() never raises, whatever the state of the sink
\* it is called in (in particular after a write failure).
C19_CloseNeverRaises ==
  \A r \in RunIds : ~CloseRaised(runs[r])

\* C19 amended: sse.close() raises exactly when the stream is broken at the
\* time of the call (a write was rejected, or the consumer has gone), and
\* the stream is then left broken; on an open stream it closes the stream.
\* The handler calls it once and its finally block swallows the failure: the
\* task ends normally either way.
C19_CloseRaisesOnBrokenSinkSwallowed ==
  \A r \in RunIds :
    LET s == runs[r] IN
      /\ Cardinality(CloseResultIdx(s)) <= 1
      /\ \A i \in CloseResultIdx(s) :
           /\ i = Len(s.log) /\ s.pc = "done"
           /\ s.log[i].ok <=> s.sink = "closed"
           /\ ~s.log[i].ok <=> s.sink = "errored"
           /\ ~NoRejectedWrite(s) => ~s.log[i].ok

\* A run whose write was rejected, whose close then raised, and which ended
\* normally.
C19_Witness ==
  \E r \in RunIds :
    LET s == runs[r] IN
      /\ ~NoRejectedWrite(s) /\ CloseRaised(s)
      /\ s.pc = "done" /\ s.sink = "errored"

----------------------------------------------------------------------------
(* C20 *)

\* The awaits of the background task, and its end.
TaskPcs == {"sendMessage", "sleep", "getTask", "emit", "close", "done"}

\* The trace entries of the failures of sendMessage, getTask and sse.emit.
FailureIdx(s) ==
  {i \in Idx(s, "sendMessageResult") \cup Idx(s, "getTaskResult") : ~s.log[i].ok}
  \cup Idx(s, "emitRejected")

\* C20: whatever fails (sendMessage, getTask, writes to the sink, the close
\* of the sink), the failure is handled inside the background task: it is
\* followed at once by the emit of a RUN_ERROR or by the close, the task is
\* always at one of its awaits or ended, it ends once close has settled
\* (resolved or rejected), and the response returned by the handler stays
\* the 200 event stream.
C20_NoErrorEscapesTask ==
  \A r \in RunIds :
    LET s == runs[r] IN
      Accepted(s) =>
        /\ s.pc \in TaskPcs
        /\ s.response = [status |-> 200]
        /\ \A f \in FailureIdx(s) :
             f + 1 \in EmitIdxOf(s, "RUN_ERROR") \cup Idx(s, "close")
        /\ \A i \in CloseResultIdx(s) : s.pc = "done"

\* A run whose getTask call failed, whose two RUN_ERROR writes were rejected
\* and whose close failed, ended with its response unchanged.
C20_Witness ==
  \E r \in RunIds :
    LET s == runs[r] IN
      /\ Accepted(s) /\ s.pc = "done" /\ s.response.status = 200
      /\ PollFailed(s)
      /\ Cardinality(Idx(s, "emitRejected")) = 2
      /\ CloseRaised(s)

----------------------------------------------------------------------------
(* C21 *)

\* The trace entries of the outcomes of sendMessage, getTask, a rejected
\* write and close.
ResultIdx(s) ==
  Idx(s, "sendMessageResult") \cup Idx(s, "getTaskResult")
  \cup Idx(s, "emitRejected") \cup Idx(s, "closeResult")

\* The handler returns the stream response in this step, while the first
\* operation of the background task (sendMessage, or the write of the
\* RUN_ERROR when there is no user message) is outstanding: no operation has
\* settled, no sleep or getTask was issued, nothing was delivered.
ReturnsBeforeAnyCompletion(r) ==
  (runs[r].response.status # 200 /\ runs'[r].response.status = 200) =>
    /\ runs'[r].pc \in {"sendMessage", "emit"}
    /\ Len(runs'[r].log) = 1
    /\ ResultIdx(runs'[r]) = {}
    /\ runs'[r].delivered = <<>>

\* C21: the handler returns the stream response in the step that starts the
\* background task, before sendMessage, any poll or any write has settled;
\* so whenever the task is at one of its awaits the response has already
\* been returned.
C21_ResponseReturnedBeforeSubmitCompletes ==
  /\ [][\A r \in RunIds : ReturnsBeforeAnyCompletion(r)]_vars
  /\ [](\A r \in RunIds :
          (runs[r].pc \in TaskPcs \/ runs[r].log # <<>>) =>
            runs[r].response = [status |-> 200])

\* The response has been returned and the submit call is still outstanding.
C21_Witness ==
  \E r \in RunIds :
    LET s == runs[r] IN
      /\ s.response.status = 200
      /\ s.pc = "sendMessage"
      /\ Idx(s, "sendMessage") = {1}
      /\ Idx(s, "sendMessageResult") = {}
      /\ s.delivered = <<>>

----------------------------------------------------------------------------
(* C22 *)

\* lastState as determined by the run's own stream: the state of the last
\* STATE_DELTA delivered, `submitted` once RUN_STARTED is delivered.
OwnLastState(s) ==
  LET d == Delivered(s)
      ds == TypeIdx(d, "STATE_DELTA")
  IN  IF ds # {} THEN d[SetMax(ds)].delta.bindu_state
      ELSE IF TypeIdx(d, "RUN_STARTED") # {} THEN "submitted"
      ELSE ""

\* The run's own polls that returned a non-terminal state.
OwnNonTerminalPolls(s) ==
  {i \in OkPollIdx(s) : s.log[i].state \notin {"completed", "canceled", "failed"}}

\* The last-observed state, the poll counter and the stream of a run are
\* determined by that run's own trace, and its calls stay within its own
\* attempt budget and carry its own task id.
OwnState(s) ==
  /\ s.lastState = OwnLastState(s)
  /\ s.pollCount \in {Cardinality(OwnNonTerminalPolls(s)),
                      Cardinality(OwnNonTerminalPolls(s)) - 1}
  /\ s.pollCount >= 0
  /\ PollCalls(s) <= NonNeg(s.maxPollAttempts)
  /\ PollCalls(s) <= s.pollCount + 1
  /\ IsPrefix(Delivered(s), Emitted(s))
  /\ \A i \in Idx(s, "getTask") : s.log[i].taskId = s.taskId

\* A step changes the record of one run at most, and never the
\* configuration.
OneRunPerStep ==
  /\ config' = config
  /\ \A r \in RunIds :
       runs'[r] # runs[r] => \A q \in RunIds \ {r} : runs'[q] = runs[q]

\* C22: with two runs interleaved, every step (an outcome of submit or
\* getStatus, a write, a close, a consumer disconnect) changes the state of
\* one run only, and each run's last-observed state, poll counter, remote
\* calls and stream are those determined by its own trace: a failure,
\* timeout or disconnect of the other run leaves them unchanged.
C22_RunsIndependent ==
  /\ [][OneRunPerStep]_vars
  /\ [](\A r \in RunIds : OwnState(runs[r]))

\* One run failed (its poll failed and its consumer had disconnected) while
\* the other one completed with every event delivered.
C22_Witness ==
  \E r, q \in RunIds :
    /\ r # q
    /\ runs[r].pc = "done" /\ PollFailed(runs[r]) /\ runs[r].sink = "errored"
    /\ runs[q].pc = "done" /\ runs[q].sink = "closed"
    /\ CompletedPolled(runs[q])
    /\ Delivered(runs[q]) = Emitted(runs[q])
    /\ TypeIdx(Delivered(runs[q]), "RUN_FINISHED") # {}

----------------------------------------------------------------------------
(* C23 *)

TranslateBodies ==
  { [thread_id |-> "t1", messages |-> <<Msg("user", "hi")>>],
    [thread_id |-> "t1", run_id |-> "r1",
     messages |-> <<Msg("system", "s"), Msg("user", "a")>>],
    [thread_id |-> "t2", run_id |-> "r2", messages |-> <<Msg("user", "hi")>>],
    [thread_id |-> "t2", run_id |-> "", messages |-> <<Msg("user", "hi")>>] }

\* A run brought to its first getTask call: request accepted, sendMessage
\* succeeded, RUN_STARTED written, first sleep over.
TranslatorRun(body, cfg) ==
  LET s0 == OnSubmitted(Accept(IdleRun(1), body, cfg))
      s1 == AfterEmit([s0 EXCEPT !.delivered =
                         Append(@, FormatSSEEvent(RunStartedEvent(s0.events)))])
  IN  GetTask(s1)

\* The events of one snapshot: every write resolves, up to the event that
\* ends the snapshot's handling (the STATE_DELTA of a non-terminal state,
\* or the RUN_FINISHED / RUN_ERROR before the break).
RECURSIVE Drain(_)
Drain(s) ==
  IF s.pc # "emit" THEN s
  ELSE LET event == s.log[Len(s.log)].event
           w == [s EXCEPT !.delivered = Append(@, FormatSSEEvent(event))]
       IN  IF s.cont = "break" THEN w
           ELSE IF s.cont = "delta"
                   /\ s.currentTask.status.state \notin TERMINAL_STATES
           THEN w
           ELSE Drain(AfterEmit(w))

InitTranslate ==
  \E body \in TranslateBodies :
    \E cfg \in [pollIntervalMs : {DefaultPollIntervalMs},
                maxPollAttempts : 1..MaxAttempts] :
      /\ config = cfg
      /\ runs = [r \in RunIds |->
                   IF r = 1 THEN TranslatorRun(body, cfg) ELSE IdleRun(r)]

\* The snapshot t is translated by the run's builder.
TranslateSnapshot(snapshots) ==
  /\ runs[1].pc = "getTask"
  /\ \E t \in snapshots :
       runs' = [runs EXCEPT ![1] = Drain(OnTask(@, t))]
  /\ UNCHANGED config

\* The same snapshot is translated a second time by the same builder, from
\* the same last-observed state; the identifiers drawn the first time are
\* not drawn again.
TranslateAgain ==
  /\ runs[1].pc # "getTask"
  /\ runs[2].pc = "idle"
  /\ runs' = [runs EXCEPT ![2] =
                Drain(OnTask([TranslatorRun(runs[1].body, config)
                                EXCEPT !.uuids = runs[1].uuids],
                             runs[1].currentTask))]
  /\ UNCHANGED config

NextTranslate ==
  \/ TranslateSnapshot(TaskSnapshots)
  \/ TranslateAgain

SpecTranslate == InitTranslate /\ [][NextTranslate]_vars

\* The events emitted for the snapshot (those after RUN_STARTED).
Translation(s) == SubSeq(Emitted(s), 2, Len(Emitted(s)))

TranslatedTwice == runs[2].pc # "idle"

MessageIds(evs) ==
  {evs[i].message_id : i \in {j \in 1..Len(evs) : Has(evs[j], "message_id")}}

StripMessageId(evs) ==
  [i \in 1..Len(evs) |->
     IF Has(evs[i], "message_id")
     THEN [f \in DOMAIN evs[i] \ {"message_id"} |-> evs[i][f]]
     ELSE evs[i]]

\* C23 as stated: the two translations of one snapshot by one builder are
\* equal in every field (timestamps aside), message ids included.
C23_TranslationRepeatable ==
  TranslatedTwice => Translation(runs[1]) = Translation(runs[2])

\* C23 amended: the two translations are equal in every field except the
\* message ids (timestamps aside); the message ids of the second
\* translation are all different from those of the first, so the two are
\* equal exactly when the snapshot yields no message event.
C23_TranslationRepeatableUpToMessageIds ==
  TranslatedTwice =>
    LET t1 == Translation(runs[1])
        t2 == Translation(runs[2])
    IN  /\ StripMessageId(t1) = StripMessageId(t2)
        /\ MessageIds(t1) \cap MessageIds(t2) = {}
        /\ Cardinality(MessageIds(t1)) = Len(TaskTexts(runs[1].currentTask))
        /\ Cardinality(MessageIds(t2)) = Len(TaskTexts(runs[1].currentTask))
        /\ t1 = t2 <=> TaskTexts(runs[1].currentTask) = <<>>

\* A `completed` snapshot with the text parts "a" and "b", translated twice:
\* eight events each time, with different message ids.
C23_Witness ==
  /\ TranslatedTwice
  /\ TaskTexts(runs[1].currentTask) = <<"a", "b">>
  /\ Len(Translation(runs[1])) = 8
  /\ Len(Translation(runs[2])) = 8
  /\ Translation(runs[1]) # Translation(runs[2])

----------------------------------------------------------------------------
(* C24 *)

SuppliedInterval(body) ==
  Has(body, "config") /\ Has(body.config, "polling_interval_ms")

SuppliedTimeout(body) == Has(body, "config") /\ Has(body.config, "timeout_ms")

\* ceil(t / iv) for iv > 0: the least integer n with n * iv >= t.
Ceil(t, iv) == CHOOSE n \in -5..5 : n * iv >= t /\ (n - 1) * iv < t

\* C24 as stated: the poll interval is the request's polling_interval_ms
\* when supplied and the configured one otherwise; the attempt budget is
\* ceil(timeout_ms / poll interval) whenever timeout_ms is supplied (0
\* included) and the configured maxPollAttempts only when it is not.
C24_PollingConfigResolution ==
  \A r \in RunIds :
    LET s == runs[r] IN
      Accepted(s) =>
        /\ s.pollIntervalMs =
             IF SuppliedInterval(s.body) THEN s.body.config.polling_interval_ms
             ELSE config.pollIntervalMs
        /\ s.maxPollAttempts =
             IF SuppliedTimeout(s.body)
             THEN Ceil(s.body.config.timeout_ms, s.pollIntervalMs)
             ELSE config.maxPollAttempts

\* C24, for every request but those that supply timeout_ms = 0: the poll
\* interval and the attempt budget are resolved as stated.
C24_PollingConfigResolutionNonZeroTimeout ==
  \A r \in RunIds :
    LET s == runs[r] IN
      (Accepted(s) /\ ~(SuppliedTimeout(s.body) /\ s.body.config.timeout_ms = 0)) =>
        /\ s.pollIntervalMs =
             IF SuppliedInterval(s.body) THEN s.body.config.polling_interval_ms
             ELSE config.pollIntervalMs
        /\ s.maxPollAttempts =
             IF SuppliedTimeout(s.body)
             THEN Ceil(s.body.config.timeout_ms, s.pollIntervalMs)
             ELSE config.maxPollAttempts

\* A request with timeout_ms = 0 that runs with the configured budget of
\* MaxAttempts attempts and polls.
C24_Witness ==
  \E r \in RunIds :
    LET s == runs[r] IN
      /\ Accepted(s) /\ SuppliedTimeout(s.body) /\ s.body.config.timeout_ms = 0
      /\ s.maxPollAttempts = MaxAttempts
      /\ PollCalls(s) = MaxAttempts

----------------------------------------------------------------------------
(* C25 *)

\* The number of operations of kind o the run has issued and that have not
\* settled: calls less outcomes, sleeps less the getTask calls that follow
\* them, emits less the writes delivered or rejected.
Outstanding(s, o) ==
  CASE o = "sendMessage" ->
         Cardinality(Idx(s, "sendMessage")) - Cardinality(Idx(s, "sendMessageResult"))
    [] o = "getTask" ->
         Cardinality(Idx(s, "getTask")) - Cardinality(Idx(s, "getTaskResult"))
    [] o = "sleep" ->
         Cardinality(Idx(s, "sleep")) - Cardinality(Idx(s, "getTask"))
    [] o = "emit" ->
         Cardinality(EmitIdx(s)) - Len(s.delivered) - Cardinality(Idx(s, "emitRejected"))
    [] o = "close" ->
         Cardinality(Idx(s, "close")) - Cardinality(Idx(s, "closeResult"))

\* C25: at every point of a run exactly the operation the task is suspended
\* at is outstanding, and no other: at most one of sendMessage, a sleep,
\* getTask, a write and close; every getTask call directly follows a sleep
\* of pollIntervalMs, which itself starts only after the previous getTask
\* and all the emits of its iteration have settled.
C25_OneOutstandingOperation ==
  \A r \in RunIds :
    LET s == runs[r] IN
      /\ \A o \in {"sendMessage", "getTask", "sleep", "emit", "close"} :
           Outstanding(s, o) = IF s.pc = o THEN 1 ELSE 0
      /\ \A i \in Idx(s, "getTask") :
           /\ i > 1
           /\ s.log[i - 1].op = "sleep"
           /\ s.log[i - 1].ms = s.pollIntervalMs
      /\ \A i \in Idx(s, "sleep") :
           /\ Cardinality({j \in Idx(s, "getTask") : j < i}) =
                Cardinality({j \in Idx(s, "getTaskResult") : j < i})
           /\ s.log[i - 1].op \in {"emit", "getTaskResult"}
           /\ Cardinality({j \in EmitIdx(s) : j < i}) <= Len(s.delivered)

\* A run in its second poll iteration, suspended at getTask after the first
\* iteration's STATE_DELTA was delivered.
C25_Witness ==
  \E r \in RunIds :
    LET s == runs[r] IN
      /\ s.pc = "getTask"
      /\ PollCalls(s) = 2
      /\ Cardinality(Idx(s, "sleep")) = 2
      /\ Len(s.delivered) = 2
      /\ Outstanding(s, "getTask") = 1

----------------------------------------------------------------------------
(* C26 *)

\* The trace entry of the first write of the run that was rejected.
FirstRejectedIdx(s) ==
  CHOOSE f \in Idx(s, "emitRejected") : \A g \in Idx(s, "emitRejected") : f <= g

\* C26: after the first rejected write of a run, no getTask call, sleep or
\* sendMessage is issued; what follows is at most one more emit (the
\* RUN_ERROR of the catch block, none when the rejected write was that one),
\* whose own rejection is ignored, then one close, whose failure is ignored
\* too, and the task ends.
C26_NoPollAfterEmitFailure ==
  \A r \in RunIds :
    LET s == runs[r] IN
      ~NoRejectedWrite(s) =>
        LET f == FirstRejectedIdx(s) IN
        /\ \A i \in Idx(s, "getTask") \cup Idx(s, "sleep") \cup Idx(s, "sendMessage") :
             i < f
        /\ {i \in EmitIdx(s) : i > f} \subseteq {f + 1}
        /\ \A i \in EmitIdx(s) : i > f => s.log[i].event.type = "RUN_ERROR"
        /\ Cardinality(Idx(s, "emitRejected")) <= 2
        /\ Cardinality(Idx(s, "close")) <= 1
        /\ \A c \in Idx(s, "close") : c > f /\ \A i \in EmitIdx(s) : i < c
        /\ Len(s.delivered) = Cardinality({i \in EmitIdx(s) : i < f}) - 1
        /\ s.pc \in {"emit", "close", "done"}

\* A run whose first STATE_DELTA was rejected with attempts left in its
\* budget: one poll only, one RUN_ERROR attempt, a failed close, the end.
C26_Witness ==
  \E r \in RunIds :
    LET s == runs[r] IN
      /\ ~NoRejectedWrite(s) /\ s.pc = "done"
      /\ s.maxPollAttempts = MaxAttempts
      /\ PollCalls(s) = 1
      /\ s.log[FirstRejectedIdx(s) - 1].event.type = "STATE_DELTA"
      /\ Cardinality(Idx(s, "emitRejected")) = 2
      /\ CloseRaised(s)

----------------------------------------------------------------------------
(* C27 *)

\* What ends the polling of a run: a terminal state, a failed getTask, the
\* attempt budget, or a rejected write.
LoopExitReason(s) ==
  \/ \E i \in OkPollIdx(s) : s.log[i].state \in {"completed", "canceled", "failed"}
  \/ PollFailed(s)
  \/ PollCalls(s) >= s.maxPollAttempts
  \/ ~NoRejectedWrite(s)

\* sendMessage succeeded, RUN_STARTED was delivered and every poll so far
\* returned `submitted`, the last-observed state: no emit was due.
StateNeverChanged(s) ==
  /\ SubmitOk(s)
  /\ TypeIdx(Delivered(s), "RUN_STARTED") # {}
  /\ ~PollFailed(s)
  /\ \A i \in OkPollIdx(s) : s.log[i].state = "submitted"

\* C27: a consumer disconnect does not end the polling by itself.  A run
\* leaves its poll loop only on a terminal state, a failed getTask, the end
\* of its budget or a rejected write; while the polled state stays equal to
\* the last-observed one no emit is issued, no write is rejected, and the
\* run issues its whole budget of getTask calls whether or not the consumer
\* has gone; a write is rejected only at an emit issued after the
\* disconnect.
C27_DisconnectNoticedOnlyAtEmit ==
  \A r \in RunIds :
    LET s == runs[r] IN
      /\ (SubmitOk(s) /\ Closing(s)) => LoopExitReason(s)
      /\ StateNeverChanged(s) =>
           /\ \A i \in EmitIdx(s) : s.log[i].event.type # "STATE_DELTA"
           /\ Closing(s) => PollCalls(s) = NonNeg(s.maxPollAttempts)
           /\ \A f \in Idx(s, "emitRejected") :
                PollCalls(s) = NonNeg(s.maxPollAttempts)
      /\ \A f \in Idx(s, "emitRejected") :
           s.sink = "errored" /\ s.log[f - 1].op = "emit"

\* The consumer disconnected after RUN_STARTED; every poll returned
\* `submitted`; the run issued its whole budget of getTask calls and only
\* then had a write (the timeout error) rejected.
C27_Witness ==
  \E r \in RunIds :
    LET s == runs[r] IN
      /\ StateNeverChanged(s) /\ s.pc = "done" /\ s.sink = "errored"
      /\ s.maxPollAttempts = MaxAttempts
      /\ PollCalls(s) = MaxAttempts
      /\ Len(s.delivered) = 1
      /\ Cardinality(Idx(s, "emitRejected")) = 2

----------------------------------------------------------------------------
(* C28 *)

\* The contents of the `user` messages of a list, in list order.
RECURSIVE UserContents(_)
UserContents(messages) ==
  IF messages = <<>> THEN <<>>
  ELSE (IF Head(messages).role = "user" THEN <<Head(messages).content>> ELSE <<>>)
       \o UserContents(Tail(messages))

\* The texts of the parts of the message passed to sendMessage at entry i.
SentTexts(s, i) ==
  [k \in 1..Len(s.log[i].message.parts) |-> s.log[i].message.parts[k].text]

----------------------------------------------------------------------------
(* C29 *)

\* The fetch outcome is a failure: fetch rejected, the response is not 2xx,
\* its body cannot be read as JSON or is not an object, or it carries an
\* error field.
CallFailed(o) ==
  \/ o.kind = "fetchRejected"
  \/ ~o.ok
  \/ o.json.kind # "object"
  \/ Has(o.json.data, "error")

\* The outcome is a JSON-RPC error response.
IsProtocolError(o) ==
  /\ o.kind = "response" /\ o.ok
  /\ o.json.kind = "object"
  /\ Has(o.json.data, "error")

\* The trace entries of the failed calls of the run.
CallErrorIdx(s) ==
  {i \in Idx(s, "sendMessageResult") \cup Idx(s, "getTaskResult") : ~s.log[i].ok}

\* C29: every error a call of the Task Client raises to the run is a
\* BinduRPCError with an integer code and a message; the last call failed
\* exactly when its fetch outcome is a failure, with the response's own code
\* and message for a JSON-RPC error response and code -32000 otherwise; and
\* every settled call has cleared its timeout timer.
C29_CallFailuresNormalized ==
  \A r \in RunIds :
    LET s == runs[r] IN
      /\ \A i \in CallErrorIdx(s) :
           LET e == s.log[i].error IN
           /\ e.isError /\ e.isRPC /\ e.name = "BinduRPCError"
           /\ e.code \in Int
           /\ e.message # ""
      /\ Has(s.lastCall, "outcome") =>
           LET o == s.lastCall.outcome
               c == s.lastCall.settled
           IN  /\ c.ok <=> ~CallFailed(o)
               /\ c.timerCleared
               /\ ~c.ok =>
                    /\ c.error = s.log[SetMax(CallErrorIdx(s))].error
                    /\ IF IsProtocolError(o)
                       THEN /\ c.error.code = o.json.data.error.code
                            /\ c.error.message = o.json.data.error.message
                       ELSE c.error.code = -32000
      /\ s.timersCleared =
           Cardinality(Idx(s, "sendMessageResult") \cup Idx(s, "getTaskResult"))

\* A getTask call answered by a JSON-RPC error response with code -32601:
\* the run received a BinduRPCError with that code.
C29_Witness ==
  \E r \in RunIds :
    LET s == runs[r] IN
      /\ PollFailed(s)
      /\ IsProtocolError(s.lastCall.outcome)
      /\ s.lastCall.settled.error.code = -32601
      /\ s.timersCleared = 2

----------------------------------------------------------------------------
(* C30 *)

\* The RUN_ERROR emitted at trace entry i reports a `canceled` task.
ReportsCanceled(s, i) ==
  /\ Polled(s, "canceled")
  /\ s.log[i].event.error.message = "Task canceled"

\* C30: a RUN_ERROR passed to emit carries a code exactly when it reports a
\* `canceled` task, and the code is then -32000; the RUN_ERROR that follows
\* a failed sendMessage or getTask carries the message of the remote error
\* and not its code.
C30_CodeOnlyForCanceled ==
  \A r \in RunIds :
    LET s == runs[r] IN
      /\ \A i \in EmitIdxOf(s, "RUN_ERROR") :
           LET e == s.log[i].event.error IN
           /\ Has(e, "code") <=> ReportsCanceled(s, i)
           /\ Has(e, "code") => e.code = -32000
           /\ DOMAIN e \subseteq {"message", "code"}
      /\ \A f \in CallErrorIdx(s) :
           /\ s.log[f].error.code \in Int
           /\ s.log[f + 1].event.error = [message |-> s.log[f].error.message]
      /\ \A i \in 1..Len(s.delivered) :
           s.delivered[i].event = "RUN_ERROR" =>
             (Has(s.delivered[i].data.error, "code") <=>
                s.delivered[i].data.error.message = "Task canceled")

\* A getTask call failed with the remote error code -32601 and the
\* RUN_ERROR delivered for it carries the remote message only.
C30_Witness ==
  \E r \in RunIds :
    LET s == runs[r] IN
      /\ PollFailed(s) /\ s.pc = "done" /\ s.sink = "closed"
      /\ s.log[SetMax(CallErrorIdx(s))].error.code = -32601
      /\ s.delivered[Len(s.delivered)].data.error = [message |-> "Method not found"]

----------------------------------------------------------------------------
(* C31 *)

\* The polls of a run that returned a terminal state.
TerminalPollIdx(s) == {p \in OkPollIdx(s) : s.log[p].state \in TERMINAL_STATES}

\* The trace entry i is the emit of a STATE_DELTA carrying state st.
IsStateDelta(s, i, st) ==
  /\ i \in EmitIdxOf(s, "STATE_DELTA")
  /\ s.log[i].event.delta.bindu_state = st

\* The events emitted for a terminal state: RUN_FINISHED, the text message
\* events of the artifacts, and RUN_ERROR.
TerminalHandlingTypes ==
  {"RUN_FINISHED", "RUN_ERROR", "TEXT_MESSAGE_START", "TEXT_MESSAGE_CONTENT",
   "TEXT_MESSAGE_END"}

\* C31: the first operation after a poll that returned a terminal state is
\* the emit of a STATE_DELTA carrying that state, so it precedes every
\* terminal-handling event of the poll; a RUN_FINISHED is passed to emit
\* only after a poll returned `completed` and after the STATE_DELTA of that
\* poll, and a delivered RUN_FINISHED has a delivered STATE_DELTA(completed)
\* of the same run before it.
C31_TerminalDeltaBeforeTerminalHandling ==
  \A r \in RunIds :
    LET s == runs[r]
        d == Delivered(s)
    IN
      /\ \A p \in TerminalPollIdx(s) :
           /\ p + 1 <= Len(s.log)
           /\ IsStateDelta(s, p + 1, s.log[p].state)
           /\ \A i \in EmitIdx(s) :
                (i > p /\ s.log[i].event.type \in TerminalHandlingTypes) => i > p + 1
      /\ \A i \in EmitIdxOf(s, "RUN_FINISHED") :
           \E p \in TerminalPollIdx(s) :
             /\ s.log[p].state = "completed"
             /\ p + 1 < i
             /\ s.log[i].event.run_id = s.log[p + 1].event.run_id
             /\ s.log[i].event.thread_id = s.log[p + 1].event.thread_id
      /\ \A j \in TypeIdx(d, "RUN_FINISHED") :
           \E k \in TypeIdx(d, "STATE_DELTA") :
             /\ k < j
             /\ d[k].delta.bindu_state = "completed"
             /\ d[k].run_id = d[j].run_id
             /\ d[k].thread_id = d[j].thread_id

\* A run polled `completed` and the consumer received STATE_DELTA(completed)
\* and, after the artifact's text message, RUN_FINISHED.
C31_Witness ==
  \E r \in RunIds :
    LET s == runs[r]
        d == Delivered(s)
    IN
      /\ s.pc = "done"
      /\ Polled(s, "completed")
      /\ TypeIdx(d, "RUN_FINISHED") # {}
      /\ TypeIdx(d, "TEXT_MESSAGE_CONTENT") # {}
      /\ \E k \in TypeIdx(d, "STATE_DELTA") : d[k].delta.bindu_state = "completed"

----------------------------------------------------------------------------
(* C32 *)

\* The resolved attempt budget of the run is zero or negative and its
\* sendMessage call succeeded.
NoBudgetRun(s) == Accepted(s) /\ SubmitOk(s) /\ s.maxPollAttempts <= 0

\* The events of a run that only started and timed out.
StartedThenTimeout(s) ==
  <<RunStartedEvent(s.events),
    [type |-> "RUN_ERROR", thread_id |-> s.events.threadId,
     run_id |-> s.events.runId, error |-> [message |-> "Polling timeout"]]>>

\* The run passed exactly RUN_STARTED and RUN_ERROR "Polling timeout" to
\* emit, the consumer received both, and close was called once, after them.
ExactlyStartedTimeoutClose(s) ==
  /\ Emitted(s) = StartedThenTimeout(s)
  /\ Delivered(s) = StartedThenTimeout(s)
  /\ Cardinality(Idx(s, "close")) = 1
  /\ \A c \in Idx(s, "close") : \A i \in EmitIdx(s) : i < c

\* The poll counter stays between 0 and max(maxPollAttempts, 0).
PollCountInRange(s) ==
  /\ s.pollCount >= 0
  /\ s.pollCount <= NonNeg(s.maxPollAttempts)

\* A step that changes the poll counter of run r adds one to it, and the
\* latest getTask of the run resolved with a non-terminal state that the
\* counter had not counted yet.
PollCountStep(r) ==
  runs'[r].pollCount # runs[r].pollCount =>
    LET t == runs'[r]
        polls == Idx(t, "getTaskResult")
    IN  /\ t.pollCount = runs[r].pollCount + 1
        /\ polls # {}
        /\ t.log[SetMax(polls)].ok
        /\ t.log[SetMax(polls)].state \notin TERMINAL_STATES
        /\ Cardinality(OwnNonTerminalPolls(t)) = t.pollCount

\* C32 as stated: a run with a zero or negative attempt budget whose submit
\* succeeded issues no getTask call, and once it has ended its stream is
\* exactly RUN_STARTED, RUN_ERROR "Polling timeout" and close; the poll
\* counter of every run stays within 0..max(maxPollAttempts, 0) and
\* increases only after a successful poll that returned a non-terminal state.
C32_NoBudgetStartsAndTimesOut ==
  /\ [](\A r \in RunIds :
          LET s == runs[r] IN
            /\ PollCountInRange(s)
            /\ NoBudgetRun(s) =>
                 /\ PollCalls(s) = 0
                 /\ Idx(s, "sleep") = {}
                 /\ s.pc = "done" => ExactlyStartedTimeoutClose(s))
  /\ [][\A r \in RunIds : PollCountStep(r)]_vars

\* C32, provided no write to the sink is rejected: the stream of the ended
\* run is exactly RUN_STARTED, RUN_ERROR "Polling timeout" and close.  With
\* or without a rejected write the run issues no getTask call and never
\* sleeps, and the poll counter is as stated.
C32_NoBudgetStartsAndTimesOutUnlessRejected ==
  /\ [](\A r \in RunIds :
          LET s == runs[r] IN
            /\ PollCountInRange(s)
            /\ NoBudgetRun(s) =>
                 /\ PollCalls(s) = 0
                 /\ Idx(s, "sleep") = {}
                 /\ s.pollCount = 0
                 /\ (s.pc = "done" /\ Idx(s, "emitRejected") = {}) =>
                      ExactlyStartedTimeoutClose(s))
  /\ [][\A r \in RunIds : PollCountStep(r)]_vars

\* A run with the negative budget of timeout_ms -600 started, timed out
\* without a poll and closed its stream.
C32_Witness ==
  \E r \in RunIds :
    LET s == runs[r] IN
      /\ NoBudgetRun(s) /\ s.maxPollAttempts < 0
      /\ s.pc = "done" /\ s.sink = "closed"
      /\ ExactlyStartedTimeoutClose(s)

----------------------------------------------------------------------------
(* C33 *)

\* The states that do not end a run: every state string but `completed`,
\* `canceled` and `failed`.
IsNonTerminal(st) == st \notin {"completed", "canceled", "failed"}

\* The polls of a run that returned a non-terminal state.
NonTerminalPollIdx(s) == {p \in OkPollIdx(s) : IsNonTerminal(s.log[p].state)}

\* The trace entry i is the emit of RUN_ERROR "Polling timeout".
IsPollingTimeout(s, i) ==
  /\ i \in EmitIdxOf(s, "RUN_ERROR")
  /\ s.log[i].event.error = [message |-> "Polling timeout"]

\* The trace entry i continues or times out the polling: the next sleep, or
\* the emit of "Polling timeout" when the budget is used up.
ContinuesPolling(s, i) == s.log[i].op = "sleep" \/ IsPollingTimeout(s, i)

\* Every poll of the run returned a non-terminal state and the counter has
\* reached the attempt budget.
StayedNonTerminal(s) ==
  /\ OkPollIdx(s) # {}
  /\ OkPollIdx(s) = Idx(s, "getTaskResult")
  /\ NonTerminalPollIdx(s) = OkPollIdx(s)
  /\ s.pollCount >= s.maxPollAttempts

====
